---- MODULE Spec2Model ----
(***************************************************************************)
(* A model of the Oracle Database Simulator's SQL engine                   *)
(* (src/src/utils/oracleParser.ts): the catalog of in-memory tables and    *)
(* OracleParser.parseSQL with its dialect normalizer, dispatcher and       *)
(* statement executors.                                                    *)
(*                                                                         *)
(* Statements are JavaScript strings and the engine recognises them with   *)
(* regular expressions, so the model works on the statement text itself:   *)
(* the first part of the module is a model of the String and RegExp        *)
(* operations the engine uses (a backtracking matcher with JavaScript's    *)
(* greedy / lazy / ordered-alternation semantics), and every regular       *)
(* expression of the source is transcribed node by node.                   *)
(***************************************************************************)
EXTENDS Integers, Sequences, FiniteSets, TLC

(***************************************************************************)
(* Characters and strings.  A string is a TLA+ string; Ch(s, i) is its     *)
(* i-th character (1-based) as a one-character string.                     *)
(***************************************************************************)
Ch(s, i) == SubSeq(s, i, i)

\* const x = value; body(x): a value computed once and named in what follows
With(value, body(_)) == body(value)

LowerAlphabet == "abcdefghijklmnopqrstuvwxyz"
UpperAlphabet == "ABCDEFGHIJKLMNOPQRSTUVWXYZ"
DigitAlphabet == "0123456789"

LowerChars == {Ch(LowerAlphabet, i) : i \in 1..Len(LowerAlphabet)}
UpperChars == {Ch(UpperAlphabet, i) : i \in 1..Len(UpperAlphabet)}
DigitChars == {Ch(DigitAlphabet, i) : i \in 1..Len(DigitAlphabet)}

\* \w, \s and the complement of "." (the line terminators) of a JavaScript RegExp
WordChars == LowerChars \cup UpperChars \cup DigitChars \cup {"_"}
SpaceChars == {" ", "\t", "\n", "\r", "\f"}
LineTerminators == {"\n", "\r"}

\* the position of character c in alphabet a (0 when absent)
IndexIn(a, c) ==
  IF \E i \in 1..Len(a) : Ch(a, i) = c
    THEN CHOOSE i \in 1..Len(a) : Ch(a, i) = c
    ELSE 0

UpperOfChar == [c \in LowerChars |-> Ch(UpperAlphabet, IndexIn(LowerAlphabet, c))]
LowerOfChar == [c \in UpperChars |-> Ch(LowerAlphabet, IndexIn(UpperAlphabet, c))]

CharToUpper(c) == IF c \in LowerChars THEN UpperOfChar[c] ELSE c
CharToLower(c) == IF c \in UpperChars THEN LowerOfChar[c] ELSE c

\* the characters lo..hi of s, each in upper or in lower case
RECURSIVE MapChars(_, _, _, _)
MapChars(s, lo, hi, upper) ==
  IF lo > hi THEN ""
  ELSE IF lo = hi THEN (IF upper THEN CharToUpper(Ch(s, lo)) ELSE CharToLower(Ch(s, lo)))
  ELSE MapChars(s, lo, (lo + hi) \div 2, upper) \o MapChars(s, (lo + hi) \div 2 + 1, hi, upper)

\* String.prototype.toUpperCase
toUpperCase(s) == MapChars(s, 1, Len(s), TRUE)

\* String.prototype.startsWith / endsWith / includes
startsWith(s, p) == Len(p) <= Len(s) /\ SubSeq(s, 1, Len(p)) = p
endsWith(s, p) == Len(p) <= Len(s) /\ SubSeq(s, Len(s) - Len(p) + 1, Len(s)) = p
includes(s, p) == \E i \in 1..(Len(s) - Len(p) + 1) : SubSeq(s, i, i + Len(p) - 1) = p

RECURSIVE SkipSpaceFwd(_, _)
SkipSpaceFwd(s, i) ==
  IF i <= Len(s) /\ Ch(s, i) \in SpaceChars THEN SkipSpaceFwd(s, i + 1) ELSE i

RECURSIVE SkipSpaceBwd(_, _)
SkipSpaceBwd(s, j) ==
  IF j >= 1 /\ Ch(s, j) \in SpaceChars THEN SkipSpaceBwd(s, j - 1) ELSE j

\* String.prototype.trim
trim(s) == SubSeq(s, SkipSpaceFwd(s, 1), SkipSpaceBwd(s, Len(s)))

\* String.prototype.indexOf(sep, p), 1-based; 0 when sep does not occur
indexOf(s, sep, p) ==
  IF \E q \in p..(Len(s) - Len(sep) + 1) : SubSeq(s, q, q + Len(sep) - 1) = sep
    THEN CHOOSE q \in p..(Len(s) - Len(sep) + 1) :
           /\ SubSeq(s, q, q + Len(sep) - 1) = sep
           /\ \A j \in p..(q - 1) : SubSeq(s, j, j + Len(sep) - 1) # sep
    ELSE 0

\* String.prototype.split with a string separator of length >= 1
RECURSIVE SplitFrom(_, _, _)
SplitFrom(s, sep, p) ==
  LET q == indexOf(s, sep, p)
  IN IF q = 0 THEN <<SubSeq(s, p, Len(s))>>
     ELSE <<SubSeq(s, p, q - 1)>> \o SplitFrom(s, sep, q + Len(sep))

split(s, sep) == SplitFrom(s, sep, 1)

(***************************************************************************)
(* Regular expressions.  A pattern is a sequence of nodes:                 *)
(*   lit    a literal text, letter case aside when ci (the i flag)         *)
(*   set    one character in (neg = FALSE) or not in (neg = TRUE) cs       *)
(*   rep    a set repeated at least min times, greedy or lazy              *)
(*   cap    capturing group number i around a sub-pattern                  *)
(*   opt    (?: ... )? around a sub-pattern (greedy)                       *)
(*   alt    ordered alternation of sub-patterns                            *)
(*   bol, eol   the anchors ^ and $ (no m flag in the source)              *)
(* capend is the matcher's own marker closing a capturing group.           *)
(***************************************************************************)
CharSet(cs) == [k |-> "set", cs |-> cs, neg |-> FALSE]
NotCharSet(cs) == [k |-> "set", cs |-> cs, neg |-> TRUE]
Rep(set, min, greedy) == [k |-> "rep", cs |-> set.cs, neg |-> set.neg, min |-> min, greedy |-> greedy]
Cap(i, body) == [k |-> "cap", i |-> i, body |-> body]
Opt(body) == [k |-> "opt", body |-> body]
Alt(alts) == [k |-> "alt", alts |-> alts]
Bol == [k |-> "bol"]
Eol == [k |-> "eol"]

ReSpace == CharSet(SpaceChars)     \* \s
ReWord == CharSet(WordChars)       \* \w
ReDigit == CharSet(DigitChars)     \* \d
ReDot == NotCharSet(LineTerminators) \* .

\* a literal text, alone in a pattern
Lit(text) == <<[k |-> "lit", text |-> text, ci |-> FALSE]>>
LitCI(text) == <<[k |-> "lit", text |-> text, ci |-> TRUE]>>

\* the literal n stands at position i of s
LitAt(n, s, i) ==
  /\ i + Len(n.text) - 1 <= Len(s)
  /\ \A j \in 1..Len(n.text) :
       IF n.ci THEN CharToUpper(Ch(s, i + j - 1)) = CharToUpper(Ch(n.text, j))
       ELSE Ch(s, i + j - 1) = Ch(n.text, j)

InSet(n, c) == IF n.neg THEN c \notin n.cs ELSE c \in n.cs

NoMatch == [ok |-> FALSE]

\* the number of consecutive characters from position i that node n accepts
RunLength(n, s, i) ==
  (CHOOSE j \in i..(Len(s) + 1) :
     /\ j > Len(s) \/ ~InSet(n, Ch(s, j))
     /\ \A x \in i..(j - 1) : InSet(n, Ch(s, x))) - i

\* the first of the tries, in their order, that matched
FirstOk(tries) ==
  IF \A a \in 1..Len(tries) : ~tries[a].ok THEN NoMatch
  ELSE tries[CHOOSE a \in 1..Len(tries) : tries[a].ok /\ \A b \in 1..(a - 1) : ~tries[b].ok]

RECURSIVE MatchAt(_, _, _, _)
RECURSIVE RepTry(_, _, _, _, _, _)
RECURSIVE AltTry(_, _, _, _, _)

\* the pattern `nodes` matched at position i of s, with backtracking; caps[j] is
\* <<>> while group j is unset (undefined) and <<text>> once it has captured
MatchAt(nodes, s, i, caps) ==
  IF Len(nodes) = 0 THEN [ok |-> TRUE, end |-> i, caps |-> caps]
  ELSE
    LET n == Head(nodes)
        rest == Tail(nodes)
    IN CASE n.k = "lit" ->
              IF LitAt(n, s, i) THEN MatchAt(rest, s, i + Len(n.text), caps) ELSE NoMatch
         [] n.k = "set" ->
              IF i <= Len(s) /\ InSet(n, Ch(s, i))
                THEN MatchAt(rest, s, i + 1, caps)
                ELSE NoMatch
         [] n.k = "rep" -> RepTry(n, rest, s, i, caps, RunLength(n, s, i))
         [] n.k = "cap" ->
              MatchAt(n.body \o <<[k |-> "capend", i |-> n.i, from |-> i]>> \o rest, s, i, caps)
         [] n.k = "capend" ->
              MatchAt(rest, s, i, [caps EXCEPT ![n.i] = <<SubSeq(s, n.from, i - 1)>>])
         [] n.k = "opt" -> AltTry(<<n.body, <<>> >>, rest, s, i, caps)
         [] n.k = "alt" -> AltTry(n.alts, rest, s, i, caps)
         [] n.k = "bol" -> IF i = 1 THEN MatchAt(rest, s, i, caps) ELSE NoMatch
         [] n.k = "eol" -> IF i = Len(s) + 1 THEN MatchAt(rest, s, i, caps) ELSE NoMatch

\* a repetition of at most max characters takes the most it can (greedy) or
\* the least (lazy) with which the rest of the pattern matches
RepTry(n, rest, s, i, caps, max) ==
  FirstOk([t \in 1..(max - n.min + 1) |->
             MatchAt(rest, s, i + (IF n.greedy THEN max - t + 1 ELSE n.min + t - 1), caps)])

\* the first alternative with which the rest of the pattern matches
AltTry(alts, rest, s, i, caps) ==
  FirstOk([a \in 1..Len(alts) |-> MatchAt(alts[a] \o rest, s, i, caps)])

NoCaps(n) == [j \in 1..n |-> <<>>]

\* RegExp exec without the g flag, from position i on: the match at the
\* leftmost position that has one, or NoMatch
SearchFrom(re, ncaps, s, i) ==
  FirstOk([t \in 1..(Len(s) + 2 - i) |->
             [start |-> i + t - 1] @@ MatchAt(re, s, i + t - 1, NoCaps(ncaps))])

\* String.prototype.match(re) for a RegExp without the g flag
match(s, re, ncaps) == SearchFrom(re, ncaps, s, 1)

\* RegExp.prototype.test
test(re, s) == match(s, re, 0).ok

\* a replacement template: literal parts and $n references
RLit(text) == [lit |-> text]
RRef(n) == [ref |-> n]

RECURSIVE Expand(_, _, _)
Expand(tmpl, j, caps) ==
  IF j > Len(tmpl) THEN ""
  ELSE (IF "lit" \in DOMAIN tmpl[j] THEN tmpl[j].lit
        ELSE IF Len(caps[tmpl[j].ref]) = 0 THEN "" ELSE caps[tmpl[j].ref][1])
         \o Expand(tmpl, j + 1, caps)

\* String.prototype.replace(re, template) for a RegExp with the g flag
RECURSIVE ReplaceFrom(_, _, _, _, _)
ReplaceFrom(s, re, ncaps, tmpl, p) ==
  With(SearchFrom(re, ncaps, s, p),
       LAMBDA r :
         IF ~r.ok THEN SubSeq(s, p, Len(s))
         ELSE SubSeq(s, p, r.start - 1) \o Expand(tmpl, 1, r.caps)
                \o (IF r.end > r.start
                      THEN ReplaceFrom(s, re, ncaps, tmpl, r.end)
                      ELSE IF r.end > Len(s) THEN ""
                      ELSE Ch(s, r.end) \o ReplaceFrom(s, re, ncaps, tmpl, r.end + 1)))

replaceAll(s, re, ncaps, tmpl) == ReplaceFrom(s, re, ncaps, tmpl, 1)

\* String.prototype.replace(re, template) for a RegExp without the g flag
replaceFirst(s, re, ncaps, tmpl) ==
  With(match(s, re, ncaps),
       LAMBDA r :
         IF ~r.ok THEN s
         ELSE SubSeq(s, 1, r.start - 1) \o Expand(tmpl, 1, r.caps) \o SubSeq(s, r.end, Len(s)))

\* the match a split takes at position q after a piece begun at p: none at
\* the end of s, and none that is empty at p
SplitAt(s, re, ncaps, p, q) ==
  With(MatchAt(re, s, q, NoCaps(ncaps)),
       LAMBDA r :
         IF r.ok /\ r.end # p
           THEN [ok |-> TRUE, start |-> q, end |-> r.end, caps |-> r.caps]
           ELSE NoMatch)

\* String.prototype.split(re): the pieces between matches, each match's
\* captures spliced in after the piece it ends (every group of the one
\* pattern the source splits on with a group always captures)
RECURSIVE SplitReFrom(_, _, _, _)
SplitReFrom(s, re, ncaps, p) ==
  With(FirstOk([t \in 1..(Len(s) - p + 1) |-> SplitAt(s, re, ncaps, p, p + t - 1)]),
       LAMBDA r :
         IF ~r.ok THEN <<SubSeq(s, p, Len(s))>>
         ELSE <<SubSeq(s, p, r.start - 1)>> \o [j \in 1..ncaps |-> r.caps[j][1]]
                \o SplitReFrom(s, re, ncaps, r.end))

splitRe(s, re, ncaps) ==
  IF Len(s) = 0
    THEN (IF MatchAt(re, s, 1, NoCaps(ncaps)).ok THEN <<>> ELSE <<s>>)
    ELSE SplitReFrom(s, re, ncaps, 1)

(***************************************************************************)
(* JavaScript values.  A value stored in a row is a string, a number or    *)
(* undefined; NaN arises when a text that is no number is coerced.         *)
(* Numbers are integers: the statements drawn below write no fractions,    *)
(* exponents or hexadecimal literals.                                      *)
(***************************************************************************)
Str(s) == [str |-> s]
Num(n) == [num |-> n]
Undefined == [undef |-> TRUE]
NaN == [nan |-> TRUE]

IsStr(v) == "str" \in DOMAIN v
IsNum(v) == "num" \in DOMAIN v

\* the characters of the statements in code-unit order, for the relational
\* comparison of two strings (the printable ASCII characters but the backquote,
\* which no statement below contains)
CodeOrder ==
  "\t\n\f\r !\"#$%&'()*+,-./0123456789:;<=>?@ABCDEFGHIJKLMNOPQRSTUVWXYZ[\\]^_abcdefghijklmnopqrstuvwxyz{|}~"

CodeOf == [c \in {Ch(CodeOrder, i) : i \in 1..Len(CodeOrder)} |-> IndexIn(CodeOrder, c)]

RECURSIVE StrLessFrom(_, _, _)
StrLessFrom(a, b, i) ==
  IF i > Len(b) THEN FALSE
  ELSE IF i > Len(a) THEN TRUE
  ELSE IF Ch(a, i) = Ch(b, i) THEN StrLessFrom(a, b, i + 1)
  ELSE CodeOf[Ch(a, i)] < CodeOf[Ch(b, i)]

RECURSIVE DigitsValue(_, _, _)
DigitsValue(s, i, acc) ==
  IF i > Len(s) THEN acc
  ELSE DigitsValue(s, i + 1, 10 * acc + IndexIn(DigitAlphabet, Ch(s, i)) - 1)

AllDigits(s) == Len(s) > 0 /\ \A i \in 1..Len(s) : Ch(s, i) \in DigitChars

\* Number(text): white space is trimmed, the empty text is 0, an optionally
\* signed run of digits is that integer, anything else is NaN
Number(s) ==
  With(trim(s),
       LAMBDA t :
         IF Len(t) = 0 THEN Num(0)
         ELSE IF AllDigits(t) THEN Num(DigitsValue(t, 1, 0))
         ELSE IF Ch(t, 1) = "-" /\ AllDigits(SubSeq(t, 2, Len(t)))
           THEN Num(0 - DigitsValue(t, 2, 0))
         ELSE IF Ch(t, 1) = "+" /\ AllDigits(SubSeq(t, 2, Len(t)))
           THEN Num(DigitsValue(t, 2, 0))
         ELSE NaN)

\* ToNumber of a value
ToNumberAbsentAsZero(v) == IF IsNum(v) THEN v ELSE IF IsStr(v) THEN Number(v.str) ELSE Num(0)

ToNumber(v) == IF IsNum(v) THEN v ELSE IF IsStr(v) THEN Number(v.str) ELSE NaN

\* a == b (loose equality) where b is a string
LooseEq(a, b) ==
  IF IsStr(a) THEN a.str = b.str
  ELSE IF IsNum(a) THEN ToNumber(b) = a
  ELSE FALSE

\* a < b (the abstract relational comparison: text order for two strings,
\* numeric otherwise, false when either side is NaN)
LessThan(a, b) ==
  IF IsStr(a) /\ IsStr(b) THEN StrLessFrom(a.str, b.str, 1)
  ELSE With(<<ToNumber(a), ToNumber(b)>>,
            LAMBDA n : IsNum(n[1]) /\ IsNum(n[2]) /\ n[1].num < n[2].num)

\* a <= b
LessEq(a, b) ==
  IF IsStr(a) /\ IsStr(b) THEN ~StrLessFrom(b.str, a.str, 1)
  ELSE With(<<ToNumber(a), ToNumber(b)>>,
            LAMBDA n : IsNum(n[1]) /\ IsNum(n[2]) /\ n[1].num <= n[2].num)

\* the elements of a sequence
Range(seq) == {seq[i] : i \in 1..Len(seq)}

\* the last position of x in seq
LastIndex(seq, x) == CHOOSE i \in 1..Len(seq) : seq[i] = x /\ \A j \in (i + 1)..Len(seq) : seq[j] # x

(***************************************************************************)
(* The dialect normalizer.                                                 *)
(***************************************************************************)
\* /VARCHAR2\((\d+)\)/gi
ReVarchar2 == LitCI("VARCHAR2(") \o <<Cap(1, <<Rep(ReDigit, 1, TRUE)>>)>> \o Lit(")")
\* /NUMBER\((\d+),(\d+)\)/gi
ReNumberPS ==
  LitCI("NUMBER(") \o <<Cap(1, <<Rep(ReDigit, 1, TRUE)>>)>> \o Lit(",")
    \o <<Cap(2, <<Rep(ReDigit, 1, TRUE)>>)>> \o Lit(")")
\* /NUMBER\((\d+)\)/gi
ReNumberP == LitCI("NUMBER(") \o <<Cap(1, <<Rep(ReDigit, 1, TRUE)>>)>> \o Lit(")")

\* the .replace(pattern, replacement) calls chained on sql, in order
Replacements ==
  <<[re |-> ReVarchar2, ncaps |-> 1, by |-> <<RLit("VARCHAR("), RRef(1), RLit(")")>>],
    [re |-> ReNumberPS, ncaps |-> 2,
     by |-> <<RLit("DECIMAL("), RRef(1), RLit(","), RRef(2), RLit(")")>>],
    [re |-> ReNumberP, ncaps |-> 1, by |-> <<RLit("INTEGER")>>],
    [re |-> LitCI("NUMBER"), ncaps |-> 0, by |-> <<RLit("DECIMAL(38,10)")>>],
    [re |-> LitCI("DATE"), ncaps |-> 0, by |-> <<RLit("TIMESTAMP")>>],
    [re |-> LitCI("SYSDATE"), ncaps |-> 0, by |-> <<RLit("CURRENT_TIMESTAMP")>>],
    [re |-> LitCI("SYSTIMESTAMP"), ncaps |-> 0, by |-> <<RLit("CURRENT_TIMESTAMP")>>],
    [re |-> LitCI("NVL("), ncaps |-> 0, by |-> <<RLit("COALESCE(")>>],
    [re |-> Lit("||"), ncaps |-> 0, by |-> <<RLit("+")>>]>>

\* sql after the calls from the i-th on
RECURSIVE replaceEach(_, _, _)
replaceEach(sql, calls, i) ==
  IF i > Len(calls) THEN sql
  ELSE replaceEach(replaceAll(sql, calls[i].re, calls[i].ncaps, calls[i].by), calls, i + 1)

normalizeOracleSQL(sql) == replaceEach(sql, Replacements, 1)

\* sql.trim().replace(/;$/, '')
cleanSQL(sql) == replaceFirst(trim(sql), Lit(";") \o <<Eol>>, 0, <<>>)

(***************************************************************************)
(* The statements submitted to parseSQL, and the instants and elapsed      *)
(* times a call may observe.  Statements and every other *Statements set   *)
(* is the workload of one specification below.                             *)
(***************************************************************************)
Times ==
  {[y |-> 2025, mo |-> 1, d |-> 9, h |-> 8, mi |-> 5, s |-> 0, ms |-> 7],
   [y |-> 2026, mo |-> 11, d |-> 30, h |-> 23, mi |-> 59, s |-> 59, ms |-> 999]}

Elapsed == {0, 2}

\* rows of one table: insert, query, update and delete
Statements ==
  {"CREATE TABLE T (ID NUMBER, NAME VARCHAR2(50))",
   "create table t (id INTEGER NOT NULL, name VARCHAR2(50));",
   "INSERT INTO T VALUES (1,'A')",
   "INSERT INTO t (id, name) VALUES (2, 'B');",
   "INSERT INTO T (ID, NAME) VALUES (2, 'B')",
   "SELECT * FROM T",
   "SELECT NAME FROM T WHERE ID = 1",
   "SELECT * FROM T WHERE ID = 1",
   "SELECT * FROM T WHERE ID != 2",
   "SELECT * FROM T WHERE ID <> 2",
   "SELECT * FROM T WHERE ID < 2",
   "SELECT * FROM T WHERE ID > 1",
   "SELECT * FROM T WHERE ID <= 1",
   "SELECT * FROM T WHERE ID >= 2",
   "SELECT * FROM T WHERE ID = 1 OR NAME = 'A'",
   "SELECT * FROM T WHERE ID = 1 AND NAME = 'A'",
   "SELECT * FROM T WHERE ID >= 1 OR NAME = 'A'",
   "SELECT * FROM T WHERE ID >= 1 AND NAME = 'A'",
   "UPDATE T SET NAME='B' WHERE ID=1",
   "UPDATE T SET NAME='B'",
   "DELETE FROM T WHERE ID=1",
   "DELETE FROM T WHERE ID = 2 OR NAME = 'A'",
   "DELETE FROM T WHERE ID < 2 OR NAME = 'A'",
   "DELETE FROM T WHERE ID < 2 AND NAME = 'A'",
   "DELETE FROM T WHERE NAME <> 'B'",
   "DELETE FROM T WHERE ID >= 1",
   "SELECT * FROM T WHERE NAME LIKE 'A%'",
   "SELECT * FROM T WHERE ID IS NULL OR NAME IS NULL",
   "DELETE FROM T WHERE NAME LIKE 'A%'",
   "DELETE FROM T WHERE ID BETWEEN 1 AND 2",
   "DELETE FROM T",
   "delete from t;",
   "DROP TABLE T"}

\* the life of tables: create, describe, index, drop
DdlStatements ==
  {"CREATE TABLE T (ID NUMBER, NAME VARCHAR2(50))",
   "create table t (id INTEGER NOT NULL, name CHAR);",
   "CREATE TABLE T (C NUMBER(5) not null, P NUMBER(8,2))",
   "CREATE TABLE DATES (D DATE)",
   "CREATE TABLE U (N INT)",
   "DESCRIBE T",
   "desc t;",
   "DESC DATES",
   "DESC U",
   "CREATE INDEX IX ON T (ID)",
   "DROP TABLE T",
   "drop table dates;",
   "DROP TABLE U"}

\* two tables side by side: rows, an index, and names that collide
CatalogStatements ==
  {"CREATE TABLE U (N INT)",
   "create table u (n INT, m INT);",
   "Create Table V (K CHAR)",
   "INSERT INTO U VALUES (7)",
   "INSERT INTO V VALUES ('x')",
   "INSERT INTO V VALUES ('x', 'y')",
   "CREATE INDEX IX ON U (N)",
   "DELETE FROM U",
   "delete from v;",
   "DROP TABLE V"}

\* queries on DUAL
DualStatements ==
  {"SELECT SYSDATE FROM DUAL",
   "SELECT SYSDATE FROM DUAL;",
   "select user from dual",
   "SELECT 1+1 FROM DUAL",
   "SELECT 'x' FROM DUAL",
   "(SELECT USER FROM DUAL)",
   "BEGIN SELECT 7 * 6 FROM DUAL",
   "CREATE TABLE DUAL (DUMMY CHAR)",
   "INSERT INTO DUAL VALUES ('X')",
   "DROP TABLE DUAL"}

\* statements that fail, one way each, next to some that succeed
ErrorStatements ==
  {"CREATE TABLE T (ID INT)",
   "create table t (id INT);",
   "CREATE TABLE TIMESTAMPS (N INT)",
   "INSERT INTO T VALUES (1)",
   "SELECT * FROM T",
   "SELECT * FROM DATES",
   "DELETE FROM T",
   "DROP TABLE T",
   "DESC T",
   "DESCRIBE DATES",
   "CREATE INDEX IX ON T (ID)",
   "CREATE UNIQUE INDEX UX ON T (ID, N)",
   "UPDATE T SET ID=2",
   "GRANT SELECT ON T TO PUBLIC",
   "SELECT",
   "CREATE TABLE T",
   "INSERT INTO T",
   "DELETE T",
   "DROP TABLE",
   "DESCRIBE",
   "CREATE INDEX IX ON T",
   "WITH DUAL",
   "(SELECT 7 FROM DUAL)",
   "(SELECT 010+1 FROM DUAL)"}

\* the lines typed into the terminal: statements ended by a semicolon or a
\* slash, a statement in two lines, session commands and a utility command
TerminalLines ==
  {"CREATE TABLE T (ID INT);",
   "INSERT INTO T VALUES (1);",
   "INSERT INTO T VALUES (1)/",
   "DELETE FROM T WHERE ID=1;",
   "DELETE FROM T WHERE ID=1/",
   "CREATE INDEX IX ON T (ID);",
   "DROP TABLE T;",
   "SELECT * FROM T",
   "WHERE ID=1;",
   "COMMIT",
   "ROLLBACK",
   "rollback;",
   "SAVEPOINT A",
   "SET AUTOCOMMIT OFF",
   "SET PAGESIZE 20",
   "SHOW USER",
   "HELP",
   ""}

\* the lines the terminal keeps at most before a statement is complete
MaxBuffered == 1

\* a terminal that takes every text that is no command for SQL to execute
routeOfUnterminated(trimmedCommand) ==
  With(toUpperCase(trimmedCommand),
       LAMBDA upper :
         IF trimmedCommand = "" THEN "empty"
         ELSE IF \E p \in {"COMMIT", "ROLLBACK", "SAVEPOINT", "SET", "SHOW"} : startsWith(upper, p)
           THEN "session"
         ELSE IF upper \in {"CLEAR", "CLS"} THEN "clear"
         ELSE IF upper = "HELP" THEN "help"
         ELSE IF upper \in {"EXIT", "QUIT"} THEN "exit"
         ELSE "sql")

\* where executeCommand goes with the trimmed text of the command
routeOf(trimmedCommand) ==
  With(toUpperCase(trimmedCommand),
       LAMBDA upper :
         IF trimmedCommand = "" THEN "empty"
         ELSE IF \E p \in {"COMMIT", "ROLLBACK", "SAVEPOINT", "SET", "SHOW"} : startsWith(upper, p)
           THEN "session"
         ELSE IF upper \in {"CLEAR", "CLS"} THEN "clear"
         ELSE IF upper = "HELP" THEN "help"
         ELSE IF upper \in {"EXIT", "QUIT"} THEN "exit"
         ELSE IF ~endsWith(trimmedCommand, ";") /\ ~endsWith(trimmedCommand, "/") THEN "multiline"
         ELSE "sql")

\* the texts multiLineInput can hold once n of the lines were kept
RECURSIVE Buffered(_, _)
Buffered(lines, n) ==
  {full \in (IF n = 1 THEN lines
             ELSE {kept \o "\n" \o command : kept \in Buffered(lines, n - 1), command \in lines}) :
     routeOf(trim(full)) = "multiline"}

\* the texts executeCommand can see as fullCommand, each with its trimmed
\* text and where that goes
routedOf ==
  [fullCommand \in TerminalLines
                    \cup {kept \o "\n" \o command :
                            kept \in UNION {Buffered(TerminalLines, n) : n \in 1..MaxBuffered},
                            command \in TerminalLines} |->
     With(trim(fullCommand),
          LAMBDA trimmedCommand : [trimmedCommand |-> trimmedCommand, route |-> routeOf(trimmedCommand)])]

\* the texts the terminal hands to parseSQL
TerminalStatements ==
  {routedOf[f].trimmedCommand : f \in {f \in DOMAIN routedOf : routedOf[f].route = "sql"}}

AllStatements ==
  Statements \cup DdlStatements \cup CatalogStatements \cup DualStatements \cup ErrorStatements
    \cup TerminalStatements

(***************************************************************************)
(* What parseSQL computes from the statement text alone is tabulated once  *)
(* for the statements above: the normalized text, each executor's match,   *)
(* and the conditions of each WHERE clause.                                *)
(***************************************************************************)
normalizedOf == [sql \in AllStatements |-> normalizeOracleSQL(cleanSQL(sql))]

NormalizedStatements == {normalizedOf[sql] : sql \in AllStatements}

upperOf == [s \in NormalizedStatements |-> toUpperCase(s)]

(***************************************************************************)
(* The pattern of each executor, and its match on each statement.          *)
(***************************************************************************)
\* /SELECT\s+(.*?)\s+FROM\s+(\w+)(?:\s+WHERE\s+(.*))?/i
ReSelect ==
  LitCI("SELECT") \o <<Rep(ReSpace, 1, TRUE), Cap(1, <<Rep(ReDot, 0, FALSE)>>), Rep(ReSpace, 1, TRUE)>>
    \o LitCI("FROM") \o <<Rep(ReSpace, 1, TRUE), Cap(2, <<Rep(ReWord, 1, TRUE)>>)>>
    \o <<Opt(<<Rep(ReSpace, 1, TRUE)>> \o LitCI("WHERE")
               \o <<Rep(ReSpace, 1, TRUE), Cap(3, <<Rep(ReDot, 0, TRUE)>>)>>)>>

selectMatch == [s \in NormalizedStatements |-> match(s, ReSelect, 3)]

\* /CREATE\s+TABLE\s+(\w+)\s*\((.*)\)/i
ReCreateTable ==
  LitCI("CREATE") \o <<Rep(ReSpace, 1, TRUE)>> \o LitCI("TABLE")
    \o <<Rep(ReSpace, 1, TRUE), Cap(1, <<Rep(ReWord, 1, TRUE)>>), Rep(ReSpace, 0, TRUE)>>
    \o Lit("(") \o <<Cap(2, <<Rep(ReDot, 0, TRUE)>>)>> \o Lit(")")

createTableMatch == [s \in NormalizedStatements |-> match(s, ReCreateTable, 2)]

\* /INSERT\s+INTO\s+(\w+)\s*(?:\((.*?)\))?\s*VALUES\s*\((.*)\)/i
ReInsert ==
  LitCI("INSERT") \o <<Rep(ReSpace, 1, TRUE)>> \o LitCI("INTO")
    \o <<Rep(ReSpace, 1, TRUE), Cap(1, <<Rep(ReWord, 1, TRUE)>>), Rep(ReSpace, 0, TRUE),
         Opt(Lit("(") \o <<Cap(2, <<Rep(ReDot, 0, FALSE)>>)>> \o Lit(")")),
         Rep(ReSpace, 0, TRUE)>>
    \o LitCI("VALUES") \o <<Rep(ReSpace, 0, TRUE)>> \o Lit("(")
    \o <<Cap(3, <<Rep(ReDot, 0, TRUE)>>)>> \o Lit(")")

insertMatch == [s \in NormalizedStatements |-> match(s, ReInsert, 3)]

\* /UPDATE\s+(\w+)\s+SET\s+(.*?)(?:\s+WHERE\s+(.*))?/i
ReUpdate ==
  LitCI("UPDATE") \o <<Rep(ReSpace, 1, TRUE), Cap(1, <<Rep(ReWord, 1, TRUE)>>), Rep(ReSpace, 1, TRUE)>>
    \o LitCI("SET") \o <<Rep(ReSpace, 1, TRUE), Cap(2, <<Rep(ReDot, 0, FALSE)>>)>>
    \o <<Opt(<<Rep(ReSpace, 1, TRUE)>> \o LitCI("WHERE")
               \o <<Rep(ReSpace, 1, TRUE), Cap(3, <<Rep(ReDot, 0, TRUE)>>)>>)>>

updateMatch == [s \in NormalizedStatements |-> match(s, ReUpdate, 3)]

\* /DELETE\s+FROM\s+(\w+)(?:\s+WHERE\s+(.*))?/i
ReDelete ==
  LitCI("DELETE") \o <<Rep(ReSpace, 1, TRUE)>> \o LitCI("FROM")
    \o <<Rep(ReSpace, 1, TRUE), Cap(1, <<Rep(ReWord, 1, TRUE)>>)>>
    \o <<Opt(<<Rep(ReSpace, 1, TRUE)>> \o LitCI("WHERE")
               \o <<Rep(ReSpace, 1, TRUE), Cap(2, <<Rep(ReDot, 0, TRUE)>>)>>)>>

deleteMatch == [s \in NormalizedStatements |-> match(s, ReDelete, 2)]

\* /DROP\s+TABLE\s+(\w+)/i
ReDropTable ==
  LitCI("DROP") \o <<Rep(ReSpace, 1, TRUE)>> \o LitCI("TABLE")
    \o <<Rep(ReSpace, 1, TRUE), Cap(1, <<Rep(ReWord, 1, TRUE)>>)>>

dropTableMatch == [s \in NormalizedStatements |-> match(s, ReDropTable, 1)]

\* /CREATE\s+(?:UNIQUE\s+)?INDEX\s+(\w+)\s+ON\s+(\w+)\s*\((.*?)\)/i
ReCreateIndex ==
  LitCI("CREATE") \o <<Rep(ReSpace, 1, TRUE), Opt(LitCI("UNIQUE") \o <<Rep(ReSpace, 1, TRUE)>>)>>
    \o LitCI("INDEX")
    \o <<Rep(ReSpace, 1, TRUE), Cap(1, <<Rep(ReWord, 1, TRUE)>>), Rep(ReSpace, 1, TRUE)>>
    \o LitCI("ON")
    \o <<Rep(ReSpace, 1, TRUE), Cap(2, <<Rep(ReWord, 1, TRUE)>>), Rep(ReSpace, 0, TRUE)>>
    \o Lit("(") \o <<Cap(3, <<Rep(ReDot, 0, FALSE)>>)>> \o Lit(")")

createIndexMatch == [s \in NormalizedStatements |-> match(s, ReCreateIndex, 3)]

\* /DESC(?:RIBE)?\s*(\w*)/i, a pattern that takes a missing name for an empty one
ReDescribeNameless ==
  LitCI("DESC") \o <<Opt(LitCI("RIBE")), Rep(ReSpace, 0, TRUE), Cap(1, <<Rep(ReWord, 0, TRUE)>>)>>

\* /DESC(?:RIBE)?\s+(\w+)/i
ReDescribe ==
  LitCI("DESC") \o <<Opt(LitCI("RIBE"))>> \o <<Rep(ReSpace, 1, TRUE), Cap(1, <<Rep(ReWord, 1, TRUE)>>)>>

describeMatch == [s \in NormalizedStatements |-> match(s, ReDescribe, 1)]

\* /SELECT\s+(.*?)\s+FROM\s+DUAL/i
ReDual ==
  LitCI("SELECT") \o <<Rep(ReSpace, 1, TRUE), Cap(1, <<Rep(ReDot, 0, FALSE)>>), Rep(ReSpace, 1, TRUE)>>
    \o LitCI("FROM") \o <<Rep(ReSpace, 1, TRUE)>> \o LitCI("DUAL")

dualMatch == [s \in NormalizedStatements |-> match(s, ReDual, 1)]

\* the texts a table of matches holds as group j
Captured(matches, j) ==
  {matches[s].caps[j][1] :
     s \in {x \in NormalizedStatements : matches[x].ok /\ Len(matches[x].caps[j]) > 0}}

\* the texts captured as WHERE clauses
WhereClauses == Captured(selectMatch, 3) \cup Captured(updateMatch, 3) \cup Captured(deleteMatch, 2)

(***************************************************************************)
(* The catalog (OracleParser.tables) maps an upper-cased name to a table:  *)
(* [name, columns, data, indexes, constraints, created].  A row is a       *)
(* function from its keys to values.  An executor takes the statement and  *)
(* the catalog and yields the catalog it leaves with either the            *)
(* QueryResult it returns (result) or the message of the fault it raises   *)
(* (thrown).  A QueryResult is a record holding exactly the fields the     *)
(* code sets.                                                              *)
(***************************************************************************)
Returns(r, tbls) == [result |-> r, tables |-> tbls]
Throws(msg, tbls) == [thrown |-> msg, tables |-> tbls]
\* a failure that carries its text as a message too
FailureWithMessage(text) == [success |-> FALSE, error |-> text, message |-> text]

Failure(text) == [success |-> FALSE, error |-> text]

\* a capture is truthy when it is set and not the empty text
Truthy(cap) == Len(cap) > 0 /\ Len(cap[1]) > 0

\* row[key], undefined when the row has no such key
Get(row, key) == IF key \in DOMAIN row THEN row[key] ELSE Undefined

\* row[key] = v
Put(row, key, v) == [x \in DOMAIN row \cup {key} |-> IF x = key THEN v ELSE row[x]]

\* value.replace(/'/g, '')
stripQuotes(text) == replaceAll(text, Lit("'"), 0, <<>>)

\* /\s+(AND|OR)\s+/i
ReAndOr == <<Rep(ReSpace, 1, TRUE), Cap(1, <<Alt(<<LitCI("AND"), LitCI("OR")>>)>>), Rep(ReSpace, 1, TRUE)>>

\* /(\w+)\s*(=|!=|<>|<|>|<=|>=)\s*(.+)/
ReCondition ==
  <<Cap(1, <<Rep(ReWord, 1, TRUE)>>), Rep(ReSpace, 0, TRUE),
    Cap(2, <<Alt(<<Lit("="), Lit("!="), Lit("<>"), Lit("<"), Lit(">"), Lit("<="), Lit(">=")>>)>>),
    Rep(ReSpace, 0, TRUE), Cap(3, <<Rep(ReDot, 1, TRUE)>>)>>

\* the switch over the operator of one condition
compare(columnValue, operator, compareValue) ==
  CASE operator = "=" -> LooseEq(columnValue, compareValue)
    [] operator \in {"!=", "<>"} -> ~LooseEq(columnValue, compareValue)
    [] operator = "<" -> LessThan(columnValue, compareValue)
    [] operator = ">" -> LessThan(compareValue, columnValue)
    [] operator = "<=" -> LessEq(columnValue, compareValue)
    [] operator = ">=" -> LessEq(compareValue, columnValue)
    [] OTHER -> FALSE

\* what the loop of evaluateWhereClause reads from conditions[i]: whether it
\* has the shape, the column's key, the operator and the value it compares with
conditionOf(text) ==
  With(match(trim(text), ReCondition, 3),
       LAMBDA m :
         IF m.ok
           THEN [ok |-> TRUE, column |-> toUpperCase(m.caps[1][1]), operator |-> m.caps[2][1],
                 compareValue |-> Str(stripQuotes(m.caps[3][1]))]
           ELSE [ok |-> FALSE])

\* whereClause.split(/\s+(AND|OR)\s+/i), each piece read as a condition
conditionsOf ==
  [whereClause \in WhereClauses |->
     With(splitRe(whereClause, ReAndOr, 1),
          LAMBDA conditions : [i \in 1..Len(conditions) |-> conditionOf(conditions[i])])]

\* an evaluation that rejects the row at a piece without the shape
evaluateWhereClauseStrict(row, whereClause) ==
  With(conditionsOf[whereClause],
       LAMBDA conditions :
         \A i \in 1..Len(conditions) :
           (i % 2 = 1)
             => /\ conditions[i].ok
                /\ compare(Get(row, conditions[i].column), conditions[i].operator,
                           conditions[i].compareValue))

\* the loop steps by two, over the pieces between the connectives; a piece
\* without the shape is skipped
evaluateWhereClause(row, whereClause) ==
  With(conditionsOf[whereClause],
       LAMBDA conditions :
         \A i \in 1..Len(conditions) :
           (i % 2 = 1 /\ conditions[i].ok)
             => compare(Get(row, conditions[i].column), conditions[i].operator,
                        conditions[i].compareValue))

\* applySetClause: the row after the assignments, and whether value.replace
\* was reached with value undefined (an assignment text without "=")
RECURSIVE applyAssignments(_, _, _)
applyAssignments(row, assignments, j) ==
  IF j > Len(assignments) THEN [row |-> row, threw |-> FALSE]
  ELSE LET parts == split(assignments[j], "=")
       IN IF Len(parts) < 2 THEN [row |-> row, threw |-> TRUE]
          ELSE applyAssignments(
                 Put(row, toUpperCase(trim(parts[1])), Str(stripQuotes(trim(parts[2])))),
                 assignments, j + 1)

applySetClause(row, setClause) == applyAssignments(row, split(setClause, ","), 1)

\* a plan whose cost is floor(rows / 100), without the floor of 1
generateExecutionPlanUnfloored(operation, object, rows) ==
  [operation |-> toUpperCase(operation) \o " STATEMENT",
   object |-> toUpperCase(object),
   cost |-> rows \div 100,
   cardinality |-> rows,
   bytes |-> rows * 100,
   time |-> "00:00:01"]

generateExecutionPlan(operation, object, rows) ==
  [operation |-> toUpperCase(operation) \o " STATEMENT",
   object |-> toUpperCase(object),
   cost |-> IF rows \div 100 > 1 THEN rows \div 100 ELSE 1,
   cardinality |-> rows,
   bytes |-> rows * 100,
   time |-> "00:00:01"]

\* /\s+/
ReSpaces == <<Rep(ReSpace, 1, TRUE)>>

columnOf(def) ==
  With(splitRe(trim(def), ReSpaces, 0),
       LAMBDA parts :
         [name |-> toUpperCase(parts[1]),
          dataType |-> IF Len(parts) >= 2 /\ Len(parts[2]) > 0 THEN parts[2]
                       ELSE "VARCHAR2(255)",
          nullable |-> ~includes(toUpperCase(def), "NOT NULL")])

parseColumnDefinitions(columnDefs) ==
  LET defs == split(columnDefs, ",")
  IN [i \in 1..Len(defs) |-> columnOf(defs[i])]

valueOf(text) ==
  With(trim(text),
       LAMBDA trimmed :
         IF startsWith(trimmed, "'") /\ endsWith(trimmed, "'")
           THEN Str(SubSeq(trimmed, 2, Len(trimmed) - 1))
         ELSE IF IsNum(Number(trimmed)) THEN Number(trimmed)
         ELSE Str(trimmed))

parseValues(valueList) ==
  LET parts == split(valueList, ",")
  IN [i \in 1..Len(parts) |-> valueOf(parts[i])]

(***************************************************************************)
(* The statement executors.                                                *)
(***************************************************************************)
\* the error worded without "or view"
NoSuchTableOnly(tableName) == Failure("ORA-00942: table does not exist: " \o tableName)

NoSuchTable(tableName) == Failure("ORA-00942: table or view does not exist: " \o tableName)

\* the rows of data the WHERE clause keeps (all of them without a clause)
filterRows(data, whereClause) ==
  IF Truthy(whereClause)
    THEN SelectSeq(data, LAMBDA row : evaluateWhereClause(row, whereClause[1]))
    ELSE data

trimAll(parts) == [i \in 1..Len(parts) |-> trim(parts[i])]

executeSelect(sql, tbls) ==
  With(selectMatch[sql],
       LAMBDA m :
         IF ~m.ok THEN Returns(Failure("ORA-00936: missing expression"), tbls)
         ELSE LET columns == m.caps[1][1]
                  tableName == m.caps[2][1]
                  whereClause == m.caps[3]
              IN IF toUpperCase(tableName) \notin DOMAIN tbls
                   THEN Returns(NoSuchTable(tableName), tbls)
                   ELSE With(filterRows(tbls[toUpperCase(tableName)].data, whereClause),
                             LAMBDA data :
                               LET table == tbls[toUpperCase(tableName)]
                                   star == trim(columns) = "*"
                                   resultColumns ==
                                     IF star
                                       THEN [i \in 1..Len(table.columns) |-> table.columns[i].name]
                                       ELSE trimAll(split(columns, ","))
                                   resultData ==
                                     IF star THEN data
                                     ELSE [i \in 1..Len(data) |->
                                             [col \in Range(resultColumns) |-> Get(data[i], col)]]
                               IN Returns([success |-> TRUE,
                                           data |-> resultData,
                                           columns |-> resultColumns,
                                           rowCount |-> Len(resultData),
                                           executionPlan |->
                                             generateExecutionPlan("SELECT", tableName, Len(data))],
                                          tbls)))

\* a catalog key that keeps the letter case of the statement
keyAsWritten(tableName) == tableName

\* a CREATE TABLE that stores the new table before it looks the name up
executeCreateTableThenCheck(sql, tbls, now) ==
  With(createTableMatch[sql],
       LAMBDA m :
         IF ~m.ok THEN Returns(Failure("ORA-00907: missing right parenthesis"), tbls)
         ELSE LET tableName == m.caps[1][1]
                  table == [name |-> toUpperCase(tableName),
                            columns |-> parseColumnDefinitions(m.caps[2][1]),
                            data |-> <<>>, indexes |-> <<>>, constraints |-> <<>>,
                            created |-> now]
              IN Returns(Failure("ORA-00955: name is already used by an existing object: "
                                   \o tableName),
                         [n \in DOMAIN tbls \cup {table.name} |->
                            IF n = table.name THEN table ELSE tbls[n]]))

\* const tableNameUpper = tableName.toUpperCase(), the key of the new table
keyOfNewTable(tableName) == toUpperCase(tableName)

executeCreateTable(sql, tbls, now) ==
  With(createTableMatch[sql],
       LAMBDA m :
         IF ~m.ok THEN Returns(Failure("ORA-00907: missing right parenthesis"), tbls)
         ELSE LET tableName == m.caps[1][1]
                  columnDefs == m.caps[2][1]
                  tableNameUpper == keyOfNewTable(tableName)
              IN IF tableNameUpper \in DOMAIN tbls
                   THEN Returns(Failure("ORA-00955: name is already used by an existing object: "
                                          \o tableName), tbls)
                   ELSE LET table == [name |-> tableNameUpper,
                                      columns |-> parseColumnDefinitions(columnDefs),
                                      data |-> <<>>,
                                      indexes |-> <<>>,
                                      constraints |-> <<>>,
                                      created |-> now]
                        IN Returns([success |-> TRUE,
                                    message |-> "Table " \o tableName \o " created.",
                                    rowCount |-> 0],
                                   [n \in DOMAIN tbls \cup {tableNameUpper} |->
                                      IF n = tableNameUpper THEN table ELSE tbls[n]]))

\* columns.forEach((col, index) => newRow[col] = values[index])
newRowOf(columns, values) ==
  [col \in Range(columns) |->
     IF LastIndex(columns, col) <= Len(values) THEN values[LastIndex(columns, col)]
     ELSE Undefined]

\* an INSERT that leaves the new row as the only row of the table
executeInsertAlone(sql, tbls) ==
  With(insertMatch[sql],
       LAMBDA m :
         IF ~m.ok THEN Returns(Failure("ORA-00936: missing expression"), tbls)
         ELSE LET tableName == m.caps[1][1]
                  columnList == m.caps[2]
                  valueList == m.caps[3][1]
                  key == toUpperCase(tableName)
              IN IF key \notin DOMAIN tbls THEN Returns(NoSuchTable(tableName), tbls)
                 ELSE LET table == tbls[key]
                          values == parseValues(valueList)
                          columns ==
                            IF Truthy(columnList) THEN trimAll(split(columnList[1], ","))
                            ELSE [i \in 1..Len(table.columns) |-> table.columns[i].name]
                      IN Returns([success |-> TRUE, message |-> "1 row created.", rowCount |-> 1],
                                 [tbls EXCEPT ![key].data = <<newRowOf(columns, values)>>]))

executeInsert(sql, tbls) ==
  With(insertMatch[sql],
       LAMBDA m :
         IF ~m.ok THEN Returns(Failure("ORA-00936: missing expression"), tbls)
         ELSE LET tableName == m.caps[1][1]
                  columnList == m.caps[2]
                  valueList == m.caps[3][1]
                  key == toUpperCase(tableName)
              IN IF key \notin DOMAIN tbls THEN Returns(NoSuchTable(tableName), tbls)
                 ELSE LET table == tbls[key]
                          values == parseValues(valueList)
                          columns ==
                            IF Truthy(columnList) THEN trimAll(split(columnList[1], ","))
                            ELSE [i \in 1..Len(table.columns) |-> table.columns[i].name]
                      IN Returns([success |-> TRUE, message |-> "1 row created.", rowCount |-> 1],
                                 [tbls EXCEPT ![key].data = Append(@, newRowOf(columns, values))]))

\* table.data.forEach over the rows from position i: the rows as left, the
\* count of rows updated, and whether applySetClause raised a fault
RECURSIVE updateRows(_, _, _, _, _)
updateRows(data, i, setClause, whereClause, updatedRows) ==
  IF i > Len(data) THEN [data |-> data, updatedRows |-> updatedRows, threw |-> FALSE]
  ELSE IF ~Truthy(whereClause) \/ evaluateWhereClause(data[i], whereClause[1])
    THEN With(applySetClause(data[i], setClause),
              LAMBDA a :
                IF a.threw
                  THEN [data |-> [data EXCEPT ![i] = a.row], updatedRows |-> updatedRows,
                        threw |-> TRUE]
                  ELSE updateRows([data EXCEPT ![i] = a.row], i + 1, setClause, whereClause,
                                  updatedRows + 1))
    ELSE updateRows(data, i + 1, setClause, whereClause, updatedRows)

plural(n) == IF n # 1 THEN "s" ELSE ""

executeUpdate(sql, tbls) ==
  With(updateMatch[sql],
       LAMBDA m :
         IF ~m.ok THEN Returns(Failure("ORA-00936: missing expression"), tbls)
         ELSE LET tableName == m.caps[1][1]
                  setClause == m.caps[2][1]
                  whereClause == m.caps[3]
                  key == toUpperCase(tableName)
              IN IF key \notin DOMAIN tbls THEN Returns(NoSuchTable(tableName), tbls)
                 ELSE With(updateRows(tbls[key].data, 1, setClause, whereClause, 0),
                           LAMBDA u :
                             LET after == [tbls EXCEPT ![key].data = u.data]
                             IN IF u.threw
                                  THEN Throws("Cannot read properties of undefined (reading 'replace')",
                                              after)
                                  ELSE Returns([success |-> TRUE,
                                                message |-> ToString(u.updatedRows) \o " row"
                                                              \o plural(u.updatedRows) \o " updated.",
                                                rowCount |-> u.updatedRows],
                                               after)))

\* a DELETE that, without a WHERE clause, removes the first row only
remainingButFirst(data, whereClause) ==
  IF Truthy(whereClause)
    THEN SelectSeq(data, LAMBDA row : ~evaluateWhereClause(row, whereClause[1]))
    ELSE IF data = <<>> THEN <<>> ELSE Tail(data)

\* table.data after the if (whereClause) ... else ... of executeDelete
remaining(data, whereClause) ==
  IF Truthy(whereClause)
    THEN SelectSeq(data, LAMBDA row : ~evaluateWhereClause(row, whereClause[1]))
    ELSE <<>>

executeDelete(sql, tbls) ==
  With(deleteMatch[sql],
       LAMBDA m :
         IF ~m.ok THEN Returns(Failure("ORA-00936: missing expression"), tbls)
         ELSE LET tableName == m.caps[1][1]
                  whereClause == m.caps[2]
                  key == toUpperCase(tableName)
              IN IF key \notin DOMAIN tbls THEN Returns(NoSuchTable(tableName), tbls)
                 ELSE With(remaining(tbls[key].data, whereClause),
                           LAMBDA kept :
                             LET initialCount == Len(tbls[key].data)
                                 deletedRows == initialCount - Len(kept)
                             IN Returns([success |-> TRUE,
                                         message |-> ToString(deletedRows) \o " row"
                                                       \o plural(deletedRows) \o " deleted.",
                                         rowCount |-> deletedRows],
                                        [tbls EXCEPT ![key].data = kept])))

executeDropTable(sql, tbls) ==
  With(dropTableMatch[sql],
       LAMBDA m :
         IF ~m.ok THEN Returns(Failure("ORA-00942: table or view does not exist"), tbls)
         ELSE LET tableName == toUpperCase(m.caps[1][1])
              IN IF tableName \notin DOMAIN tbls THEN Returns(NoSuchTable(tableName), tbls)
                 ELSE Returns([success |-> TRUE,
                               message |-> "Table " \o tableName \o " dropped.",
                               rowCount |-> 0],
                              [n \in DOMAIN tbls \ {tableName} |-> tbls[n]]))

executeCreateIndex(sql, tbls) ==
  With(createIndexMatch[sql],
       LAMBDA m :
         IF ~m.ok THEN Returns(Failure("ORA-00907: missing right parenthesis"), tbls)
         ELSE LET indexName == m.caps[1][1]
                  tableName == m.caps[2][1]
                  columnList == m.caps[3][1]
                  key == toUpperCase(tableName)
              IN IF key \notin DOMAIN tbls THEN Returns(NoSuchTable(tableName), tbls)
                 ELSE LET index == [name |-> toUpperCase(indexName),
                                    columns |-> trimAll(split(columnList, ",")),
                                    unique |-> includes(toUpperCase(sql), "UNIQUE"),
                                    type |-> "BTREE"]
                      IN Returns([success |-> TRUE,
                                  message |-> "Index " \o indexName \o " created.",
                                  rowCount |-> 0],
                                 [tbls EXCEPT ![key].indexes = Append(@, index)]))

\* one row of DESCRIBE; no column carries a length (parseColumnDefinitions sets
\* none), so Type is the data type alone
describeRow(col) ==
  [x \in {"Name", "Null?", "Type"} |->
     CASE x = "Name" -> Str(col.name)
       [] x = "Null?" -> Str(IF col.nullable THEN "" ELSE "NOT NULL")
       [] x = "Type" -> Str(col.dataType)]

\* a DESCRIBE that takes the rows of the table it describes out of the catalog
executeDescribeEmptying(sql, tbls) ==
  With(describeMatch[sql],
       LAMBDA m :
         IF ~m.ok THEN Returns(Failure("ORA-00942: table or view does not exist"), tbls)
         ELSE LET tableName == toUpperCase(m.caps[1][1])
              IN IF tableName \notin DOMAIN tbls THEN Returns(NoSuchTable(tableName), tbls)
                 ELSE LET table == tbls[tableName]
                          data == [i \in 1..Len(table.columns) |-> describeRow(table.columns[i])]
                      IN Returns([success |-> TRUE,
                                  data |-> data,
                                  columns |-> <<"Name", "Null?", "Type">>,
                                  rowCount |-> Len(data)],
                                 [tbls EXCEPT ![tableName].data = <<>>]))

executeDescribe(sql, tbls) ==
  With(describeMatch[sql],
       LAMBDA m :
         IF ~m.ok THEN Returns(Failure("ORA-00942: table or view does not exist"), tbls)
         ELSE LET tableName == toUpperCase(m.caps[1][1])
              IN IF tableName \notin DOMAIN tbls THEN Returns(NoSuchTable(tableName), tbls)
                 ELSE LET table == tbls[tableName]
                          data == [i \in 1..Len(table.columns) |-> describeRow(table.columns[i])]
                      IN Returns([success |-> TRUE,
                                  data |-> data,
                                  columns |-> <<"Name", "Null?", "Type">>,
                                  rowCount |-> Len(data)],
                                 tbls))

(***************************************************************************)
(* Dates.  An instant is [y, mo, d, h, mi, s, ms] in UTC.                  *)
(***************************************************************************)
RECURSIVE padStart(_, _)
padStart(text, width) == IF Len(text) >= width THEN text ELSE padStart("0" \o text, width)

\* Date.prototype.toISOString
toISOString(t) ==
  padStart(ToString(t.y), 4) \o "-" \o padStart(ToString(t.mo), 2) \o "-"
    \o padStart(ToString(t.d), 2) \o "T" \o padStart(ToString(t.h), 2) \o ":"
    \o padStart(ToString(t.mi), 2) \o ":" \o padStart(ToString(t.s), 2) \o "."
    \o padStart(ToString(t.ms), 3) \o "Z"

\* /^\d+\s*[+\-*/]\s*\d+$/, with groups around the operands and the operator
\* for evalArithmetic to read them
ReArithmetic ==
  <<Bol, Cap(1, <<Rep(ReDigit, 1, TRUE)>>), Rep(ReSpace, 0, TRUE),
    Cap(2, <<CharSet({"+", "-", "*", "/"})>>), Rep(ReSpace, 0, TRUE),
    Cap(3, <<Rep(ReDigit, 1, TRUE)>>), Eol>>

\* eval of <integer> <op> <integer>, neither operand with a leading zero;
\* a quotient that is no integer is kept as the pair it is the ratio of
evalArithmetic(caps) ==
  LET a == DigitsValue(caps[1][1], 1, 0)
      b == DigitsValue(caps[3][1], 1, 0)
      op == caps[2][1]
  IN CASE op = "+" -> Num(a + b)
       [] op = "-" -> Num(a - b)
       [] op = "*" -> Num(a * b)
       [] op = "/" -> IF b = 0 THEN (IF a = 0 THEN NaN ELSE [infinity |-> TRUE])
                      ELSE IF a % b = 0 THEN Num(a \div b)
                      ELSE [ratio |-> <<a, b>>]

\* eval runs in strict code (the file is an ES module), where a numeric literal
\* with a leading zero is a SyntaxError; the message is the one V8 gives
LeadingZero(digits) == Len(digits) > 1 /\ Ch(digits, 1) = "0"

\* the error names the first operand with a leading zero
evalSyntaxError(caps) ==
  LET first == IF LeadingZero(caps[1][1]) THEN caps[1][1] ELSE caps[3][1]
  IN IF \A i \in 1..Len(first) : Ch(first, i) \in {"0", "1", "2", "3", "4", "5", "6", "7"}
       THEN "Octal literals are not allowed in strict mode."
       ELSE "Decimals with leading zeros are not allowed in strict mode."

executeDualQuery(sql, tbls, now) ==
  With(dualMatch[sql],
       LAMBDA m :
         IF ~m.ok THEN Returns(Failure("ORA-00936: missing expression"), tbls)
         ELSE LET expression == trim(m.caps[1][1])
                  arith == match(expression, ReArithmetic, 3)
                  value ==
                    IF toUpperCase(expression) = "SYSDATE"
                      THEN Str(split(toISOString(now), "T")[1])
                    ELSE IF toUpperCase(expression) = "SYSTIMESTAMP" THEN Str(toISOString(now))
                    ELSE IF toUpperCase(expression) = "USER" THEN Str("ORACLE_SIM")
                    ELSE IF arith.ok THEN evalArithmetic(arith.caps)
                    ELSE Str(stripQuotes(expression))
              IN IF /\ toUpperCase(expression) \notin {"SYSDATE", "SYSTIMESTAMP", "USER"}
                    /\ arith.ok
                    /\ \E j \in {1, 3} : LeadingZero(arith.caps[j][1])
                   THEN Throws(evalSyntaxError(arith.caps), tbls)
                   ELSE Returns([success |-> TRUE,
                                 data |-> <<[x \in {expression} |-> value]>>,
                                 columns |-> <<expression>>,
                                 rowCount |-> 1],
                                tbls))

(***************************************************************************)
(* The dispatcher.                                                         *)
(***************************************************************************)
\* the try block of parseSQL up to the result of the executor
dispatch(sql, tbls, now) ==
  With(normalizedOf[sql],
       LAMBDA normalizedSQL :
         With(upperOf[normalizedSQL],
              LAMBDA upper :
                IF startsWith(upper, "SELECT") THEN executeSelect(normalizedSQL, tbls)
                ELSE IF startsWith(upper, "CREATE TABLE")
                  THEN executeCreateTable(normalizedSQL, tbls, now)
                ELSE IF startsWith(upper, "INSERT") THEN executeInsert(normalizedSQL, tbls)
                ELSE IF startsWith(upper, "UPDATE") THEN executeUpdate(normalizedSQL, tbls)
                ELSE IF startsWith(upper, "DELETE") THEN executeDelete(normalizedSQL, tbls)
                ELSE IF startsWith(upper, "DROP TABLE") THEN executeDropTable(normalizedSQL, tbls)
                ELSE IF startsWith(upper, "CREATE INDEX")
                  THEN executeCreateIndex(normalizedSQL, tbls)
                ELSE IF startsWith(upper, "DESCRIBE") \/ startsWith(upper, "DESC")
                  THEN executeDescribe(normalizedSQL, tbls)
                ELSE IF includes(upper, "DUAL") THEN executeDualQuery(normalizedSQL, tbls, now)
                ELSE Returns(Failure("ORA-00900: invalid SQL statement"), tbls)))

\* parseSQL with a catch block that reports the failure without a text
parseSQLSilentCatch(sql, tbls, now, elapsed) ==
  With(dispatch(sql, tbls, now),
       LAMBDA out :
         IF "thrown" \in DOMAIN out
           THEN Returns([success |-> FALSE, executionTime |-> 0], out.tables)
           ELSE Returns(out.result @@ [executionTime |-> elapsed], out.tables))

\* what parseSQL returns and the catalog it leaves: the executor's result with
\* the elapsed time attached, or the catch block's result for a fault
parseSQLOutcome(sql, tbls, now, elapsed) ==
  With(dispatch(sql, tbls, now),
       LAMBDA out :
         IF "thrown" \in DOMAIN out
           THEN Returns([success |-> FALSE, error |-> "ORA-00907: " \o out.thrown,
                         executionTime |-> 0], out.tables)
           ELSE Returns(out.result @@ [executionTime |-> elapsed], out.tables))

(***************************************************************************)
(* The session manager.  A session is the SessionState record; its         *)
(* pageSize is a number or NaN.                                            *)
(***************************************************************************)
\* the session loadSession builds when nothing is saved
DefaultSession ==
  [currentSchema |-> "ORACLE_SIM", autoCommit |-> TRUE, dateFormat |-> "DD-MON-YY",
   numWidth |-> 10, pageSize |-> Num(14), transactionActive |-> FALSE, savepoints |-> <<>>,
   privileges |-> <<"CREATE TABLE", "CREATE INDEX", "SELECT", "INSERT", "UPDATE", "DELETE">>]

\* the value of the digits s[i..] in the given radix, after acc
RECURSIVE RadixValue(_, _, _, _)
RadixValue(s, radix, i, acc) ==
  IF i > Len(s) THEN acc
  ELSE RadixValue(s, radix, i + 1,
                  radix * acc + IndexIn("0123456789ABCDEF", CharToUpper(Ch(s, i))) - 1)

\* parseInt(text) without a radix: leading white space, a sign, then the
\* longest run of hexadecimal digits after 0x or of decimal digits otherwise
parseInt(text) ==
  LET start == SkipSpaceFwd(text, 1)
      signed == start <= Len(text) /\ Ch(text, start) \in {"+", "-"}
      first == IF signed THEN start + 1 ELSE start
      hex == first + 1 <= Len(text) /\ toUpperCase(SubSeq(text, first, first + 1)) = "0X"
      from == IF hex THEN first + 2 ELSE first
      run == RunLength(IF hex THEN CharSet(DigitChars \cup {"A", "B", "C", "D", "E", "F",
                                                            "a", "b", "c", "d", "e", "f"})
                              ELSE ReDigit, text, from)
      value == RadixValue(SubSeq(text, from, from + run - 1), IF hex THEN 16 ELSE 10, 1, 0)
  IN IF run = 0 THEN NaN
     ELSE Num(IF signed /\ Ch(text, start) = "-" THEN 0 - value ELSE value)

\* String(value) of a number or NaN
numberText(v) ==
  IF "nan" \in DOMAIN v THEN "NaN"
  ELSE IF v.num < 0 THEN "-" \o ToString(0 - v.num) ELSE ToString(v.num)

\* JSON.parse(JSON.stringify(session)): NaN is written as null
stringify(session) ==
  [session EXCEPT !.pageSize = IF "nan" \in DOMAIN @ THEN [null |-> TRUE] ELSE @]

\* executeSessionCommand with a ROLLBACK that keeps the savepoints
executeSessionCommandKeeping(command, session) ==
  With(toUpperCase(trim(command)),
       LAMBDA cmd :
         IF cmd = "COMMIT"
           THEN [session |-> [session EXCEPT !.transactionActive = FALSE, !.savepoints = <<>>],
                 saved |-> TRUE, returned |-> "Commit complete."]
         ELSE IF cmd = "ROLLBACK"
           THEN [session |-> [session EXCEPT !.transactionActive = FALSE],
                 saved |-> TRUE, returned |-> "Rollback complete."]
         ELSE IF startsWith(cmd, "SAVEPOINT ")
           THEN [session |-> [session EXCEPT !.savepoints = Append(@, SubSeq(cmd, 11, Len(cmd))),
                                             !.transactionActive = TRUE],
                 saved |-> TRUE,
                 returned |-> "Savepoint " \o SubSeq(cmd, 11, Len(cmd)) \o " created."]
         ELSE IF startsWith(cmd, "SET AUTOCOMMIT ")
           THEN [session |-> [session EXCEPT !.autoCommit = (SubSeq(cmd, 16, Len(cmd)) = "ON")],
                 saved |-> TRUE,
                 returned |-> "AUTOCOMMIT is " \o SubSeq(cmd, 16, Len(cmd)) \o "."]
         ELSE IF startsWith(cmd, "SET PAGESIZE ")
           THEN [session |-> [session EXCEPT !.pageSize = parseInt(SubSeq(cmd, 14, Len(cmd)))],
                 saved |-> TRUE,
                 returned |-> "PAGESIZE " \o numberText(parseInt(SubSeq(cmd, 14, Len(cmd))))]
         ELSE IF cmd = "SHOW USER"
           THEN [session |-> session, saved |-> FALSE,
                 returned |-> "USER is \"" \o session.currentSchema \o "\""]
         ELSE IF cmd = "SHOW AUTOCOMMIT"
           THEN [session |-> session, saved |-> FALSE,
                 returned |-> "AUTOCOMMIT " \o (IF session.autoCommit THEN "ON" ELSE "OFF")]
         ELSE [session |-> session, saved |-> FALSE,
               returned |-> "SP2-0042: unknown command \"" \o command
                              \o "\" - rest of line ignored."])

\* executeSessionCommand(command) on a session: the session it leaves,
\* whether it saved it, and the text it returns
executeSessionCommand(command, session) ==
  With(toUpperCase(trim(command)),
       LAMBDA cmd :
         IF cmd = "COMMIT"
           THEN [session |-> [session EXCEPT !.transactionActive = FALSE, !.savepoints = <<>>],
                 saved |-> TRUE, returned |-> "Commit complete."]
         ELSE IF cmd = "ROLLBACK"
           THEN [session |-> [session EXCEPT !.transactionActive = FALSE, !.savepoints = <<>>],
                 saved |-> TRUE, returned |-> "Rollback complete."]
         ELSE IF startsWith(cmd, "SAVEPOINT ")
           THEN [session |-> [session EXCEPT !.savepoints = Append(@, SubSeq(cmd, 11, Len(cmd))),
                                             !.transactionActive = TRUE],
                 saved |-> TRUE,
                 returned |-> "Savepoint " \o SubSeq(cmd, 11, Len(cmd)) \o " created."]
         ELSE IF startsWith(cmd, "SET AUTOCOMMIT ")
           THEN [session |-> [session EXCEPT !.autoCommit = (SubSeq(cmd, 16, Len(cmd)) = "ON")],
                 saved |-> TRUE,
                 returned |-> "AUTOCOMMIT is " \o SubSeq(cmd, 16, Len(cmd)) \o "."]
         ELSE IF startsWith(cmd, "SET PAGESIZE ")
           THEN [session |-> [session EXCEPT !.pageSize = parseInt(SubSeq(cmd, 14, Len(cmd)))],
                 saved |-> TRUE,
                 returned |-> "PAGESIZE " \o numberText(parseInt(SubSeq(cmd, 14, Len(cmd))))]
         ELSE IF cmd = "SHOW USER"
           THEN [session |-> session, saved |-> FALSE,
                 returned |-> "USER is \"" \o session.currentSchema \o "\""]
         ELSE IF cmd = "SHOW AUTOCOMMIT"
           THEN [session |-> session, saved |-> FALSE,
                 returned |-> "AUTOCOMMIT " \o (IF session.autoCommit THEN "ON" ELSE "OFF")]
         ELSE [session |-> session, saved |-> FALSE,
               returned |-> "SP2-0042: unknown command \"" \o command
                              \o "\" - rest of line ignored."])

(***************************************************************************)
(* The state machine.  The engine is a singleton: tables and sequences     *)
(* are its fields.  call and result record the last call made to it and    *)
(* what parseSQL last returned.  The clock and the timer are inputs of a   *)
(* call: now is the instant new Date() yields and elapsed the measured     *)
(* execution time.  createdBy is a history variable: for each table name   *)
(* as it was written in a submitted CREATE TABLE that succeeded, and that  *)
(* no successful DROP TABLE written with that name nor clearAll followed,  *)
(* the statement that was submitted.  The session manager is a singleton   *)
(* too: sessionState is its field and localStorage the item it saves.      *)
(* The terminal keeps isMultiLine and multiLineInput between two lines;    *)
(* what it only displays (lines, commandHistory, isExecuting) is left out. *)
(***************************************************************************)
MaxRows == 2
MaxIndexes == 1
MaxSavepoints == 1

VARIABLES tables, sequences, call, result, createdBy,
          sessionState, localStorage, isMultiLine, multiLineInput

vars == <<tables, sequences, call, result, createdBy,
          sessionState, localStorage, isMultiLine, multiLineInput>>

\* what a submitted statement says, read from its text before normalization
submittedOf ==
  [sql \in AllStatements |->
     With(cleanSQL(sql),
          LAMBDA text :
            LET upper == toUpperCase(text)
                created == match(text, ReCreateTable, 2)
                dropped == match(text, ReDropTable, 1)
                described == match(text, ReDescribe, 1)
            IN IF startsWith(upper, "CREATE TABLE") /\ created.ok
                 THEN [kind |-> "CREATE TABLE", name |-> toUpperCase(created.caps[1][1])]
               ELSE IF startsWith(upper, "DROP TABLE") /\ dropped.ok
                 THEN [kind |-> "DROP TABLE", name |-> toUpperCase(dropped.caps[1][1])]
               ELSE IF startsWith(upper, "DESC") /\ described.ok
                 THEN [kind |-> "DESCRIBE", name |-> toUpperCase(described.caps[1][1])]
               ELSE [kind |-> "OTHER"])]

\* createdBy after parseSQL(sql) returned r
recordCall(by, sql, r) ==
  With(submittedOf[sql],
       LAMBDA said :
         IF ~r.success THEN by
         ELSE IF said.kind = "CREATE TABLE" THEN Put(by, said.name, sql)
         ELSE IF said.kind = "DROP TABLE" THEN [n \in DOMAIN by \ {said.name} |-> by[n]]
         ELSE by)

Init ==
  /\ tables = <<>>
  /\ sequences = <<>>
  /\ call = [op |-> "new"]
  /\ result = <<>>
  /\ createdBy = <<>>
  /\ sessionState = DefaultSession
  /\ localStorage = <<>>
  /\ isMultiLine = FALSE
  /\ multiLineInput = ""

\* the catalog stays within the bounds of the model
WithinBounds(tbls) ==
  \A n \in DOMAIN tbls : Len(tbls[n].data) <= MaxRows /\ Len(tbls[n].indexes) <= MaxIndexes

\* a call parser.parseSQL(sql) at instant now that takes elapsed
parseSQL(sql, now, elapsed) ==
  \E out \in {parseSQLOutcome(sql, tables, now, elapsed)} :
     /\ WithinBounds(out.tables)
     /\ tables' = out.tables
     /\ result' = out.result
     /\ call' = [op |-> "parseSQL", sql |-> sql, now |-> now]
     /\ createdBy' = recordCall(createdBy, sql, out.result)
     /\ UNCHANGED sequences

ParseSQL(inputs) ==
  \E sql \in inputs, now \in Times, elapsed \in Elapsed :
    /\ parseSQL(sql, now, elapsed)
    /\ UNCHANGED <<sessionState, localStorage, isMultiLine, multiLineInput>>

ClearAll ==
  /\ tables' = <<>>
  /\ sequences' = <<>>
  /\ call' = [op |-> "clearAll"]
  /\ createdBy' = <<>>
  /\ UNCHANGED <<result, sessionState, localStorage, isMultiLine, multiLineInput>>

\* executeCommand with a ROLLBACK that empties the catalog
ExecuteCommandUndoing(inputs, times, durations) ==
  \E command \in inputs :
    LET fullCommand == IF isMultiLine THEN multiLineInput \o "\n" \o command ELSE command
        trimmedCommand == routedOf[fullCommand].trimmedCommand
        route == routedOf[fullCommand].route
    IN IF route = "session"
         THEN \E done \in {executeSessionCommand(trimmedCommand, sessionState)} :
                /\ Len(done.session.savepoints) <= MaxSavepoints
                /\ sessionState' = done.session
                /\ localStorage' = IF done.saved THEN stringify(done.session) ELSE localStorage
                /\ call' = [op |-> "executeSessionCommand", command |-> trimmedCommand,
                            returned |-> done.returned]
                /\ tables' = IF done.returned = "Rollback complete." THEN <<>> ELSE tables
                /\ UNCHANGED <<sequences, result, createdBy, isMultiLine, multiLineInput>>
       ELSE IF route = "multiline"
         THEN /\ Len(split(fullCommand, "\n")) <= MaxBuffered
              /\ isMultiLine' = TRUE
              /\ multiLineInput' = fullCommand
              /\ UNCHANGED <<tables, sequences, call, result, createdBy, sessionState, localStorage>>
       ELSE IF route = "sql"
         THEN /\ \E now \in times, elapsed \in durations : parseSQL(trimmedCommand, now, elapsed)
              /\ isMultiLine' = FALSE
              /\ multiLineInput' = ""
              /\ UNCHANGED <<sessionState, localStorage>>
       ELSE UNCHANGED vars

\* the terminal's executeCommand(command) for a line typed at the prompt
ExecuteCommand(inputs, times, durations) ==
  \E command \in inputs :
    LET fullCommand == IF isMultiLine THEN multiLineInput \o "\n" \o command ELSE command
        trimmedCommand == routedOf[fullCommand].trimmedCommand
        route == routedOf[fullCommand].route
    IN IF route = "session"
         THEN \E done \in {executeSessionCommand(trimmedCommand, sessionState)} :
                /\ Len(done.session.savepoints) <= MaxSavepoints
                /\ sessionState' = done.session
                /\ localStorage' = IF done.saved THEN stringify(done.session) ELSE localStorage
                /\ call' = [op |-> "executeSessionCommand", command |-> trimmedCommand,
                            returned |-> done.returned]
                /\ UNCHANGED <<tables, sequences, result, createdBy, isMultiLine, multiLineInput>>
       ELSE IF route = "multiline"
         THEN /\ Len(split(fullCommand, "\n")) <= MaxBuffered
              /\ isMultiLine' = TRUE
              /\ multiLineInput' = fullCommand
              /\ UNCHANGED <<tables, sequences, call, result, createdBy, sessionState, localStorage>>
       ELSE IF route = "sql"
         THEN /\ \E now \in times, elapsed \in durations : parseSQL(trimmedCommand, now, elapsed)
              /\ isMultiLine' = FALSE
              /\ multiLineInput' = ""
              /\ UNCHANGED <<sessionState, localStorage>>
       ELSE UNCHANGED vars

Next == ParseSQL(Statements) \/ ClearAll

Spec == Init /\ [][Next]_vars

NextDDL == ParseSQL(DdlStatements) \/ ClearAll

SpecDDL == Init /\ [][NextDDL]_vars

NextDual == ParseSQL(DualStatements) \/ ClearAll

SpecDual == Init /\ [][NextDual]_vars

NextCatalog == ParseSQL(CatalogStatements) \/ ClearAll

SpecCatalog == Init /\ [][NextCatalog]_vars

NextErrors == ParseSQL(ErrorStatements) \/ ClearAll

SpecErrors == Init /\ [][NextErrors]_vars

\* the terminal: lines typed at the prompt and the Clear DB button
NextTerminal == ExecuteCommand(TerminalLines, {CHOOSE now \in Times : now.y = 2025}, {2}) \/ ClearAll

SpecTerminal == Init /\ [][NextTerminal]_vars

\* the most savepoints a session holds when the manager is called directly
MaxSessionSavepoints == 2

\* commands handed to the session manager: each command in both letter
\* cases, two savepoint names, and texts it does not know
SessionCommands ==
  {"COMMIT", " commit ", "ROLLBACK", "rollback", "SAVEPOINT A", "savepoint a", "SAVEPOINT B",
   "SAVEPOINT", "COMMIT;", "ROLLBACK WORK", "SET AUTOCOMMIT OFF", "set autocommit on",
   "SET PAGESIZE 20", "SHOW USER", "show autocommit", "SHOW ALL", "HELP"}

\* a call sessionManager.executeSessionCommand(command)
ExecuteSessionCommand(inputs) ==
  \E command \in inputs :
    \E done \in {executeSessionCommand(command, sessionState)} :
      /\ Len(done.session.savepoints) <= MaxSessionSavepoints
      /\ sessionState' = done.session
      /\ localStorage' = IF done.saved THEN stringify(done.session) ELSE localStorage
      /\ call' = [op |-> "executeSessionCommand", command |-> command, returned |-> done.returned]
      /\ UNCHANGED <<tables, sequences, result, createdBy, isMultiLine, multiLineInput>>

\* a call sessionManager.startTransaction()
StartTransaction ==
  /\ sessionState' = [sessionState EXCEPT !.transactionActive = TRUE]
  /\ localStorage' = stringify([sessionState EXCEPT !.transactionActive = TRUE])
  /\ call' = [op |-> "startTransaction"]
  /\ UNCHANGED <<tables, sequences, result, createdBy, isMultiLine, multiLineInput>>

\* the session manager called directly, from the default session
NextSession == ExecuteSessionCommand(SessionCommands) \/ StartTransaction

SpecSession == Init /\ [][NextSession]_vars

(***************************************************************************)
(* Properties.                                                             *)
(***************************************************************************)
\* the last call was parseSQL(sql)
Submitted(c, sql) == c.op = "parseSQL" /\ c.sql = sql

\* "<n> row <verb>." for one row, "<n> rows <verb>." otherwise
Counted(n, verb) == ToString(n) \o (IF n = 1 THEN " row " ELSE " rows ") \o verb \o "."

\* a row satisfies a WHERE clause when every atomic comparison of it holds
Satisfies(row, atoms) ==
  \A k \in 1..Len(atoms) :
    compare(Get(row, atoms[k].column), atoms[k].op, Str(atoms[k].literal))

\* the UPDATE statements of Statements: table, assigned column, literal
\* without its quotes, and the atomic comparisons of the WHERE clause
UpdateCases ==
  {[sql |-> "UPDATE T SET NAME='B' WHERE ID=1", table |-> "T", column |-> "NAME",
    literal |-> "B", where |-> <<[column |-> "ID", op |-> "=", literal |-> "1"]>>],
   [sql |-> "UPDATE T SET NAME='B'", table |-> "T", column |-> "NAME",
    literal |-> "B", where |-> <<>>]}

\* C1: an UPDATE against an existing table succeeds, sets the assigned column
\* to the literal as text in every row the WHERE clause selects (all rows
\* without one), leaves the other rows alone, and reports "<n> row updated."
\* or "<n> rows updated." for the n rows updated.
C1_UpdateSetsMatchingRows ==
  [][\A c \in UpdateCases :
       (Submitted(call', c.sql) /\ c.table \in DOMAIN tables)
         => LET data == tables[c.table].data
                hit == {i \in 1..Len(data) : Satisfies(data[i], c.where)}
                updated == [i \in 1..Len(data) |->
                              IF i \in hit THEN Put(data[i], c.column, Str(c.literal))
                              ELSE data[i]]
            IN /\ result'.success
               /\ result'.message = Counted(Cardinality(hit), "updated")
               /\ tables' = [tables EXCEPT ![c.table].data = updated]]_vars

\* YYYY-MM-DD of an instant
DateOf(t) ==
  padStart(ToString(t.y), 4) \o "-" \o padStart(ToString(t.mo), 2) \o "-"
    \o padStart(ToString(t.d), 2)

\* C2: SELECT SYSDATE FROM DUAL succeeds in any catalog with exactly one row
\* and one column, keyed "SYSDATE", holding the current date as YYYY-MM-DD.
C2_SysdateFromDual ==
  Submitted(call, "SELECT SYSDATE FROM DUAL")
    => /\ result.success
       /\ result.columns = <<"SYSDATE">>
       /\ result.rowCount = 1
       /\ result.data = <<[x \in {"SYSDATE"} |-> Str(DateOf(call.now))]>>

\* the SELECT <expr> FROM DUAL statements of DualStatements, each with its
\* expression as written
DualCases ==
  {[sql |-> "SELECT SYSDATE FROM DUAL", expr |-> "SYSDATE"],
   [sql |-> "SELECT SYSDATE FROM DUAL;", expr |-> "SYSDATE"],
   [sql |-> "select user from dual", expr |-> "user"],
   [sql |-> "SELECT 1+1 FROM DUAL", expr |-> "1+1"],
   [sql |-> "SELECT 'x' FROM DUAL", expr |-> "'x'"]}

\* C3: every SELECT <expr> FROM DUAL is answered by the DUAL pseudo-query,
\* whether or not a table DUAL exists: success, one row, one column, keyed by
\* the expression as written.
C3_DualPathForEverySelect ==
  \A c \in DualCases :
    Submitted(call, c.sql)
      => /\ result.success
         /\ result.columns = <<c.expr>>
         /\ result.rowCount = 1
         /\ Len(result.data) = 1
         /\ DOMAIN result.data[1] = {c.expr}

\* C4: on a table T created by CREATE TABLE T (ID NUMBER, NAME VARCHAR2(50))
\* and still empty, INSERT INTO T VALUES (1,'A') reports "1 row created." and
\* SELECT * FROM T then returns the columns [ID, NAME] and the single row
\* {ID: 1, NAME: 'A'}.
C4_CreateInsertSelect ==
  [][(/\ Submitted(call, "INSERT INTO T VALUES (1,'A')")
      /\ "T" \in DOMAIN createdBy
      /\ createdBy["T"] = "CREATE TABLE T (ID NUMBER, NAME VARCHAR2(50))"
      /\ "T" \in DOMAIN tables
      /\ Len(tables["T"].data) = 1
      /\ Submitted(call', "SELECT * FROM T"))
       => /\ result.success
          /\ result.message = "1 row created."
          /\ result'.success
          /\ result'.columns = <<"ID", "NAME">>
          /\ result'.data = <<[x \in {"ID", "NAME"} |-> IF x = "ID" THEN Num(1) ELSE Str("A")]>>]_vars

\* what each CREATE TABLE of DdlStatements declares, column by column
Declarations ==
  "CREATE TABLE T (ID NUMBER, NAME VARCHAR2(50))"
      :> <<[name |-> "ID", type |-> "NUMBER", notNull |-> FALSE],
           [name |-> "NAME", type |-> "VARCHAR2(50)", notNull |-> FALSE]>>
  @@ "create table t (id INTEGER NOT NULL, name CHAR);"
      :> <<[name |-> "ID", type |-> "INTEGER", notNull |-> TRUE],
           [name |-> "NAME", type |-> "CHAR", notNull |-> FALSE]>>
  @@ "CREATE TABLE T (C NUMBER(5) not null, P NUMBER(8,2))"
      :> <<[name |-> "C", type |-> "NUMBER(5)", notNull |-> TRUE],
           [name |-> "P", type |-> "NUMBER(8,2)", notNull |-> FALSE]>>
  @@ "CREATE TABLE DATES (D DATE)"
      :> <<[name |-> "D", type |-> "DATE", notNull |-> FALSE]>>
  @@ "CREATE TABLE U (N INT)"
      :> <<[name |-> "N", type |-> "INT", notNull |-> FALSE]>>

\* the row DESCRIBE owes to a declared column
Described(d) ==
  [x \in {"Name", "Null?", "Type"} |->
     CASE x = "Name" -> Str(d.name)
       [] x = "Null?" -> Str(IF d.notNull THEN "NOT NULL" ELSE "")
       [] x = "Type" -> Str(d.type)]

\* C5: after a successful CREATE TABLE, DESCRIBE of the table returns one row
\* per declared column, in declaration order: Name the column's name in upper
\* case, Type the type as declared, Null? "NOT NULL" exactly for the columns
\* declared NOT NULL.
C5_DescribeReturnsDeclaration ==
  (/\ call.op = "parseSQL"
   /\ submittedOf[call.sql].kind = "DESCRIBE"
   /\ submittedOf[call.sql].name \in DOMAIN createdBy)
    => LET declared == Declarations[createdBy[submittedOf[call.sql].name]]
       IN /\ result.success
          /\ result.data = [i \in 1..Len(declared) |-> Described(declared[i])]

\* the INSERT statements of Statements: the declared columns they target (ID
\* and NAME, which both CREATE TABLE statements of Statements declare in this
\* order) and the values they give them
InsertCases ==
  {[sql |-> "INSERT INTO T VALUES (1,'A')", table |-> "T",
    targets |-> <<"ID", "NAME">>, values |-> <<Num(1), Str("A")>>],
   [sql |-> "INSERT INTO t (id, name) VALUES (2, 'B');", table |-> "T",
    targets |-> <<"ID", "NAME">>, values |-> <<Num(2), Str("B")>>],
   [sql |-> "INSERT INTO T (ID, NAME) VALUES (2, 'B')", table |-> "T",
    targets |-> <<"ID", "NAME">>, values |-> <<Num(2), Str("B")>>]}

\* C6: after a successful INSERT, whatever the letter case of its column list
\* and also without one, SELECT * on the table returns a row that maps each
\* targeted declared column to the value given at its position.
C6_InsertThenSelectStar ==
  [][\A c \in InsertCases :
       (Submitted(call, c.sql) /\ result.success /\ Submitted(call', "SELECT * FROM T"))
         => /\ result'.success
            /\ \E i \in 1..Len(result'.data) :
                 \A j \in 1..Len(c.targets) :
                   Get(result'.data[i], c.targets[j]) = c.values[j]]_vars

\* the DELETE ... WHERE statements of Statements with the atomic comparisons
\* of their WHERE clauses
DeleteCases ==
  {[sql |-> "DELETE FROM T WHERE ID=1", table |-> "T",
    where |-> <<[column |-> "ID", op |-> "=", literal |-> "1"]>>],
   [sql |-> "DELETE FROM T WHERE ID = 2 OR NAME = 'A'", table |-> "T",
    where |-> <<[column |-> "ID", op |-> "=", literal |-> "2"],
                [column |-> "NAME", op |-> "=", literal |-> "A"]>>],
   [sql |-> "DELETE FROM T WHERE NAME <> 'B'", table |-> "T",
    where |-> <<[column |-> "NAME", op |-> "<>", literal |-> "B"]>>],
   [sql |-> "DELETE FROM T WHERE ID >= 1", table |-> "T",
    where |-> <<[column |-> "ID", op |-> ">=", literal |-> "1"]>>]}

\* C7: DELETE ... WHERE on an existing table removes exactly the rows that
\* satisfy the WHERE clause and keeps the others in place; rowCount is the
\* number n of rows removed and the message "<n> row deleted." for n = 1,
\* "<n> rows deleted." otherwise (n = 0 when no row satisfies the clause).
C7_DeleteWhereRemovesMatching ==
  [][\A c \in DeleteCases :
       (Submitted(call', c.sql) /\ c.table \in DOMAIN tables)
         => LET data == tables[c.table].data
                kept == SelectSeq(data, LAMBDA row : ~Satisfies(row, c.where))
                n == Len(data) - Len(kept)
            IN /\ result'.success
               /\ result'.rowCount = n
               /\ result'.message = Counted(n, "deleted")
               /\ tables' = [tables EXCEPT ![c.table].data = kept]]_vars

\* the DELETE statements without WHERE, each with the table it names
DeleteAllCases ==
  {[sql |-> "DELETE FROM U", table |-> "U"],
   [sql |-> "delete from v;", table |-> "V"],
   [sql |-> "DELETE FROM T", table |-> "T"],
   [sql |-> "delete from t;", table |-> "T"]}

\* C8: DELETE without WHERE on an existing table leaves it with no rows and
\* reports as rowCount the number of rows it held; its columns and indexes and
\* every other table are as before.
C8_DeleteAllEmptiesTable ==
  [][\A c \in DeleteAllCases :
       (Submitted(call', c.sql) /\ c.table \in DOMAIN tables)
         => /\ result'.success
            /\ result'.rowCount = Len(tables[c.table].data)
            /\ tables' = [tables EXCEPT ![c.table].data = <<>>]]_vars

\* DELETE FROM U has just removed two rows of U, which keeps its index, while
\* V keeps its row
C8_Witness ==
  /\ Submitted(call, "DELETE FROM U")
  /\ result.success
  /\ result.rowCount = 2
  /\ {"U", "V"} \subseteq DOMAIN tables
  /\ tables["U"].data = <<>>
  /\ Len(tables["U"].indexes) = 1
  /\ Len(tables["V"].data) = 1

\* C9: CREATE TABLE with a name that equals, letter case aside, the name of a
\* table of the catalog fails with ORA-00955 and leaves the catalog, hence
\* that table's columns, rows, indexes and creation time, as it was.
C9_DuplicateCreateRejected ==
  [][(/\ call'.op = "parseSQL"
      /\ submittedOf[call'.sql].kind = "CREATE TABLE"
      /\ \E n \in DOMAIN tables : toUpperCase(n) = submittedOf[call'.sql].name)
       => /\ ~result'.success
          /\ startsWith(result'.error, "ORA-00955")
          /\ tables' = tables]_vars

\* create table u (n INT, m INT); was just refused while U, created earlier at
\* another instant, holds a row and an index
C9_Witness ==
  /\ Submitted(call, "create table u (n INT, m INT);")
  /\ ~result.success
  /\ "U" \in DOMAIN tables
  /\ tables["U"].created # call.now
  /\ Len(tables["U"].columns) = 1
  /\ Len(tables["U"].data) = 1
  /\ Len(tables["U"].indexes) = 1

\* C10: the names in the catalog are exactly the names for which a CREATE
\* TABLE succeeded with no successful DROP TABLE of the name and no clearAll
\* since; no other call adds or removes a name.
C10_CatalogIsCreatedMinusDropped == DOMAIN tables = DOMAIN createdBy

\* the statements of ErrorStatements that have their executor's shape and
\* name a table, each with the name as written, in upper case
TableCases ==
  {[sql |-> "SELECT * FROM T", table |-> "T"],
   [sql |-> "SELECT * FROM DATES", table |-> "DATES"],
   [sql |-> "INSERT INTO T VALUES (1)", table |-> "T"],
   [sql |-> "DELETE FROM T", table |-> "T"],
   [sql |-> "DROP TABLE T", table |-> "T"],
   [sql |-> "CREATE INDEX IX ON T (ID)", table |-> "T"],
   [sql |-> "DESC T", table |-> "T"],
   [sql |-> "DESCRIBE DATES", table |-> "DATES"]}

\* C11: a well-shaped SELECT, INSERT, DELETE, DROP TABLE, CREATE INDEX or
\* DESCRIBE that names a table which is not in the catalog (no table has the
\* name, and no CREATE TABLE of the name is in effect) fails with an error
\* that begins "ORA-00942: table or view does not exist" and leaves the
\* catalog as it was.
C11_MissingTableRejected ==
  [][\A c \in TableCases :
       (/\ Submitted(call', c.sql)
        /\ c.table \notin DOMAIN tables
        /\ c.table \notin DOMAIN createdBy)
         => /\ ~result'.success
            /\ startsWith(result'.error, "ORA-00942: table or view does not exist")
            /\ tables' = tables]_vars

\* the words a statement of one of the kinds with a keyword begins with
KindPrefixes ==
  {"SELECT", "CREATE TABLE", "INSERT", "UPDATE", "DELETE", "DROP TABLE", "CREATE INDEX",
   "DESCRIBE", "DESC"}

\* C12: a submitted statement whose text begins, letter case aside, with
\* SELECT, CREATE TABLE, INSERT, UPDATE, DELETE, DROP TABLE, CREATE INDEX,
\* DESCRIBE or DESC never yields "ORA-00900: invalid SQL statement".
C12_KnownKindNeverInvalid ==
  (/\ call.op = "parseSQL"
   /\ \E kw \in KindPrefixes : startsWith(toUpperCase(cleanSQL(call.sql)), kw))
    => (result.success \/ ~startsWith(result.error, "ORA-00900"))

\* the statements of ErrorStatements that reach an executor without having
\* its shape, each with the error the executor gives for that
ShapeCases ==
  {[sql |-> "SELECT", error |-> "ORA-00936: missing expression"],
   [sql |-> "INSERT INTO T", error |-> "ORA-00936: missing expression"],
   [sql |-> "DELETE T", error |-> "ORA-00936: missing expression"],
   [sql |-> "WITH DUAL", error |-> "ORA-00936: missing expression"],
   [sql |-> "CREATE TABLE T", error |-> "ORA-00907: missing right parenthesis"],
   [sql |-> "CREATE INDEX IX ON T", error |-> "ORA-00907: missing right parenthesis"],
   [sql |-> "DROP TABLE", error |-> "ORA-00942: table or view does not exist"],
   [sql |-> "DESCRIBE", error |-> "ORA-00942: table or view does not exist"]}

\* C13, as stated: a statement that reaches an executor without having its
\* shape fails with "ORA-00936: missing expression" or "ORA-00907: missing
\* right parenthesis", and the catalog is as before.
C13_ShapeMismatchIsOneOfTwoCodes ==
  [][\A c \in ShapeCases :
       Submitted(call', c.sql)
         => /\ ~result'.success
            /\ result'.error \in {"ORA-00936: missing expression",
                                  "ORA-00907: missing right parenthesis"}
            /\ tables' = tables]_vars

\* C13, amended: such a statement fails, in any catalog, with exactly
\* "ORA-00936: missing expression" (SELECT, INSERT, DELETE, DUAL query),
\* "ORA-00907: missing right parenthesis" (CREATE TABLE, CREATE INDEX) or
\* "ORA-00942: table or view does not exist", no name following (DROP TABLE,
\* DESCRIBE), and the catalog is as before.
C13_ShapeMismatchByKind ==
  [][\A c \in ShapeCases :
       Submitted(call', c.sql)
         => /\ ~result'.success
            /\ result'.error = c.error
            /\ tables' = tables]_vars

\* DESCRIBE without a name was just refused, no name in the error, while the
\* catalog holds T with a row and an index
C13_Witness ==
  /\ Submitted(call, "DESCRIBE")
  /\ ~result.success
  /\ result.error = "ORA-00942: table or view does not exist"
  /\ "T" \in DOMAIN tables
  /\ Len(tables["T"].data) = 1
  /\ Len(tables["T"].indexes) = 1

\* the six codes of the error table, each with ": " and its prose
TableErrors ==
  {"ORA-00900: invalid SQL statement",
   "ORA-00936: missing expression",
   "ORA-00907: missing right parenthesis",
   "ORA-00942: table or view does not exist",
   "ORA-00955: name already used by an existing object",
   "ORA-00600: internal error code"}

\* C14, as stated: every error string that parseSQL returns starts with one
\* of the six codes of the error table, ": " and that code's prose.
C14_ErrorIsCodeAndTableProse ==
  (call.op = "parseSQL" /\ ~result.success)
    => \E text \in TableErrors : startsWith(result.error, text)

\* the texts the executors and the dispatcher return
ReturnedErrors ==
  {"ORA-00900: invalid SQL statement",
   "ORA-00936: missing expression",
   "ORA-00907: missing right parenthesis",
   "ORA-00942: table or view does not exist",
   "ORA-00955: name is already used by an existing object"}

\* the statements of ErrorStatements in which eval raises a fault
FaultCases == {"(SELECT 010+1 FROM DUAL)"}

\* C14, amended: every error string that parseSQL returns starts with one of
\* five texts, which are those of the error table but for ORA-00955, worded
\* "name is already used by an existing object", or, when a fault was caught,
\* is "ORA-00907: " followed by the message of the fault; no error of parseSQL
\* has the code ORA-00600.
C14_ErrorIsKnownText ==
  (call.op = "parseSQL" /\ ~result.success)
    => /\ \/ \E text \in ReturnedErrors : startsWith(result.error, text)
          \/ call.sql \in FaultCases /\ startsWith(result.error, "ORA-00907: ")
       /\ ~startsWith(result.error, "ORA-00600")

\* create table t (id INT); was just refused with the ORA-00955 text
C14_Witness ==
  /\ Submitted(call, "create table t (id INT);")
  /\ ~result.success
  /\ result.error = "ORA-00955: name is already used by an existing object: t"

\* C15: whatever the statement and the catalog, parseSQL returns a
\* QueryResult, and a failure of any kind (shape mismatch, missing object,
\* duplicate object, invalid statement, internal fault) is a result with
\* success = false and an error string that is not empty.
C15_AlwaysReturnsResult ==
  call.op = "parseSQL"
    => /\ "success" \in DOMAIN result
       /\ result.success \in BOOLEAN
       /\ ~result.success => ("error" \in DOMAIN result /\ Len(result.error) > 0)

\* the fault of eval in (SELECT 010+1 FROM DUAL) was just returned as a
\* result, next to a catalog that holds a table with a row
C15_Witness ==
  /\ Submitted(call, "(SELECT 010+1 FROM DUAL)")
  /\ ~result.success
  /\ result.error = "ORA-00907: Octal literals are not allowed in strict mode."
  /\ result.executionTime = 0
  /\ "T" \in DOMAIN tables
  /\ Len(tables["T"].data) = 1

\* C16, as stated: a result with success = true has a message and no error,
\* and a result with success = false has an error and no message.
C16_MessageXorError ==
  call.op = "parseSQL"
    => IF result.success
         THEN "message" \in DOMAIN result /\ "error" \notin DOMAIN result
         ELSE "error" \in DOMAIN result /\ "message" \notin DOMAIN result

\* C16, amended: a result with success = false has an error and no message;
\* a result with success = true has no error, and it has either a message or
\* data with columns (SELECT, DESCRIBE, DUAL query), never both.
C16_MessageOrDataXorError ==
  call.op = "parseSQL"
    => IF result.success
         THEN /\ "error" \notin DOMAIN result
              /\ "message" \in DOMAIN result <=> "data" \notin DOMAIN result
              /\ "data" \in DOMAIN result <=> "columns" \in DOMAIN result
         ELSE "error" \in DOMAIN result /\ "message" \notin DOMAIN result

\* SELECT * FROM T just returned the two rows of T, and no message
C16_Witness ==
  /\ Submitted(call, "SELECT * FROM T")
  /\ result.success
  /\ Len(result.data) = 2
  /\ "message" \notin DOMAIN result

\* C17: whenever parseSQL returns success = false, a fault caught by its
\* catch block included, the catalog (the tables and each table's columns,
\* rows and indexes) is exactly what it was before the call.
C17_FailureChangesNothing ==
  [][(call'.op = "parseSQL" /\ ~result'.success) => tables' = tables]_vars

\* a caught fault was just returned while the catalog holds TIMESTAMPS and T
\* with two rows and an index
C17_Witness ==
  /\ call.op = "parseSQL"
  /\ call.sql \in FaultCases
  /\ ~result.success
  /\ DOMAIN tables = {"T", "TIMESTAMPS"}
  /\ Len(tables["T"].data) = 2
  /\ Len(tables["T"].indexes) = 1

\* C18: a session command (COMMIT, ROLLBACK, SAVEPOINT, SET, SHOW) typed in
\* the terminal between SQL statements leaves the catalog exactly as it was,
\* so a ROLLBACK keeps the rows, tables and indexes made before it.
C18_SessionCommandKeepsCatalog ==
  [][call'.op = "executeSessionCommand" => tables' = tables /\ sequences' = sequences]_vars

\* ROLLBACK was just executed and T still holds its row and its index
C18_Witness ==
  /\ call.op = "executeSessionCommand"
  /\ call.command = "ROLLBACK"
  /\ ~sessionState.transactionActive
  /\ "T" \in DOMAIN tables
  /\ Len(tables["T"].data) = 1
  /\ Len(tables["T"].indexes) = 1

\* CREATE INDEX statements, each with the table it names and the index it
\* asks for
IndexCases ==
  {[sql |-> "CREATE INDEX IX ON T (ID)", table |-> "T",
    index |-> [name |-> "IX", columns |-> <<"ID">>, unique |-> FALSE, type |-> "BTREE"]],
   [sql |-> "CREATE UNIQUE INDEX UX ON T (ID, N)", table |-> "T",
    index |-> [name |-> "UX", columns |-> <<"ID", "N">>, unique |-> TRUE, type |-> "BTREE"]]}

\* C19: CREATE UNIQUE INDEX name ON table (cols) on an existing table
\* succeeds and appends one BTREE index with the comma-split columns and
\* unique = true; CREATE INDEX without UNIQUE appends one with unique = false.
C19_CreateIndexAppends ==
  [][\A c \in IndexCases :
       (call'.op = "parseSQL" /\ call'.sql = c.sql /\ c.table \in DOMAIN tables)
         => /\ result'.success
            /\ tables' = [tables EXCEPT ![c.table].indexes = Append(@, c.index)]]_vars

\* C20: a statement entered in the terminal with a closing slash gives the
\* result and the catalog that the same statement gives, on the same
\* catalog, when it is entered with a closing semicolon.
C20_SlashLikeSemicolon ==
  [][\A command \in TerminalLines :
       LET typed == routedOf[IF isMultiLine THEN multiLineInput \o "\n" \o command ELSE command]
           text == typed.trimmedCommand
       IN (/\ typed.route = "sql"
           /\ endsWith(text, "/")
           /\ ExecuteCommand({command}, Times, Elapsed))
            => \E elapsed \in Elapsed :
                 \E out \in {parseSQLOutcome(SubSeq(text, 1, Len(text) - 1) \o ";",
                                              tables, call'.now, elapsed)} :
                   result' = out.result /\ tables' = out.tables]_vars

\* SELECT * and DELETE statements whose WHERE clause joins two atomic
\* comparisons, each with the statement that has the other connective
ConnectiveCases ==
  {[sql |-> "SELECT * FROM T WHERE ID = 1 OR NAME = 'A'",
    twin |-> "SELECT * FROM T WHERE ID = 1 AND NAME = 'A'", kind |-> "SELECT", table |-> "T",
    where |-> <<[column |-> "ID", op |-> "=", literal |-> "1"],
                [column |-> "NAME", op |-> "=", literal |-> "A"]>>],
   [sql |-> "SELECT * FROM T WHERE ID = 1 AND NAME = 'A'",
    twin |-> "SELECT * FROM T WHERE ID = 1 OR NAME = 'A'", kind |-> "SELECT", table |-> "T",
    where |-> <<[column |-> "ID", op |-> "=", literal |-> "1"],
                [column |-> "NAME", op |-> "=", literal |-> "A"]>>],
   [sql |-> "DELETE FROM T WHERE ID < 2 OR NAME = 'A'",
    twin |-> "DELETE FROM T WHERE ID < 2 AND NAME = 'A'", kind |-> "DELETE", table |-> "T",
    where |-> <<[column |-> "ID", op |-> "<", literal |-> "2"],
                [column |-> "NAME", op |-> "=", literal |-> "A"]>>],
   [sql |-> "DELETE FROM T WHERE ID < 2 AND NAME = 'A'",
    twin |-> "DELETE FROM T WHERE ID < 2 OR NAME = 'A'", kind |-> "DELETE", table |-> "T",
    where |-> <<[column |-> "ID", op |-> "<", literal |-> "2"],
                [column |-> "NAME", op |-> "=", literal |-> "A"]>>],
   [sql |-> "SELECT * FROM T WHERE ID >= 1 OR NAME = 'A'",
    twin |-> "SELECT * FROM T WHERE ID >= 1 AND NAME = 'A'", kind |-> "SELECT", table |-> "T",
    where |-> <<[column |-> "ID", op |-> ">=", literal |-> "1"],
                [column |-> "NAME", op |-> "=", literal |-> "A"]>>],
   [sql |-> "SELECT * FROM T WHERE ID >= 1 AND NAME = 'A'",
    twin |-> "SELECT * FROM T WHERE ID >= 1 OR NAME = 'A'", kind |-> "SELECT", table |-> "T",
    where |-> <<[column |-> "ID", op |-> ">=", literal |-> "1"],
                [column |-> "NAME", op |-> "=", literal |-> "A"]>>]}

\* C21: with a WHERE clause of atomic comparisons joined by AND or OR, SELECT
\* returns and DELETE removes exactly the rows that satisfy every atomic
\* comparison, and the statement with the other connective does the same.
C21_EveryComparisonMustHold ==
  [][\A c \in ConnectiveCases :
       (Submitted(call', c.sql) /\ c.table \in DOMAIN tables)
         => LET data == tables[c.table].data
                hit == SelectSeq(data, LAMBDA row : Satisfies(row, c.where))
                miss == SelectSeq(data, LAMBDA row : ~Satisfies(row, c.where))
                other == parseSQLOutcome(c.twin, tables, call'.now, result'.executionTime)
            IN /\ result'.success
               /\ c.kind = "SELECT" => result'.data = hit /\ tables' = tables
               /\ c.kind = "DELETE" => tables' = [tables EXCEPT ![c.table].data = miss]
               /\ other.result = result'
               /\ other.tables = tables']_vars

\* SELECT * statements with one atomic comparison of a column with a numeric
\* literal, one for each operator
OperatorCases ==
  {[sql |-> "SELECT * FROM T WHERE ID = 1", table |-> "T", column |-> "ID", op |-> "=", v |-> 1],
   [sql |-> "SELECT * FROM T WHERE ID != 2", table |-> "T", column |-> "ID", op |-> "!=", v |-> 2],
   [sql |-> "SELECT * FROM T WHERE ID <> 2", table |-> "T", column |-> "ID", op |-> "<>", v |-> 2],
   [sql |-> "SELECT * FROM T WHERE ID < 2", table |-> "T", column |-> "ID", op |-> "<", v |-> 2],
   [sql |-> "SELECT * FROM T WHERE ID > 1", table |-> "T", column |-> "ID", op |-> ">", v |-> 1],
   [sql |-> "SELECT * FROM T WHERE ID <= 1", table |-> "T", column |-> "ID", op |-> "<=", v |-> 1],
   [sql |-> "SELECT * FROM T WHERE ID >= 2", table |-> "T", column |-> "ID", op |-> ">=", v |-> 2]}

\* x op v on two numbers
Holds(x, op, v) ==
  CASE op = "=" -> x = v
    [] op \in {"!=", "<>"} -> x # v
    [] op = "<" -> x < v
    [] op = ">" -> x > v
    [] op = "<=" -> x <= v
    [] op = ">=" -> x >= v

\* C22: each of =, !=, <>, <, >, <=, >= is read as itself: a row whose column
\* holds the number x is returned by SELECT * ... WHERE col op v exactly when
\* x op v, so col <= v and col >= v both hold when x = v.
C22_OperatorReadAsItself ==
  [][\A c \in OperatorCases :
       (Submitted(call', c.sql) /\ c.table \in DOMAIN tables)
         => /\ result'.success
            /\ \A i \in 1..Len(tables[c.table].data) :
                 LET row == tables[c.table].data[i]
                 IN IsNum(Get(row, c.column))
                      => (row \in Range(result'.data) <=> Holds(row[c.column].num, c.op, c.v))]_vars

\* the DELETE statements with one atomic comparison
SingleDeleteCases ==
  {[sql |-> "DELETE FROM T WHERE ID=1", table |-> "T", column |-> "ID", op |-> "="],
   [sql |-> "DELETE FROM T WHERE NAME <> 'B'", table |-> "T", column |-> "NAME", op |-> "<>"],
   [sql |-> "DELETE FROM T WHERE ID >= 1", table |-> "T", column |-> "ID", op |-> ">="]}

\* C23: an atomic condition on a column that is not a key of the row is
\* false with =, <, >, <= and >= and true with != and <>, whatever the
\* literal: SELECT returns and DELETE removes such a row only with != or <>.
C23_AbsentColumn ==
  [][/\ \A c \in OperatorCases :
          (Submitted(call', c.sql) /\ c.table \in DOMAIN tables)
            => \A row \in Range(tables[c.table].data) :
                 c.column \notin DOMAIN row
                   => (row \in Range(result'.data) <=> c.op \in {"!=", "<>"})
     /\ \A c \in SingleDeleteCases :
          (Submitted(call', c.sql) /\ c.table \in DOMAIN tables)
            => \A row \in Range(tables[c.table].data) :
                 c.column \notin DOMAIN row
                   => (row \notin Range(tables'[c.table].data) <=> c.op \in {"!=", "<>"})]_vars

\* SELECT * FROM T WHERE ID != 2 just returned a row that has no key ID,
\* next to a row of T whose ID is 2 and that it did not return
C23_Witness ==
  /\ Submitted(call, "SELECT * FROM T WHERE ID != 2")
  /\ result.success
  /\ \E row \in Range(result.data) : "ID" \notin DOMAIN row
  /\ Len(result.data) < Len(tables["T"].data)

\* the SELECT statements of Statements, each with the table it reads
SelectCases ==
  {[sql |-> sql, table |-> "T"] :
     sql \in {"SELECT * FROM T", "SELECT NAME FROM T WHERE ID = 1",
              "SELECT * FROM T WHERE ID = 1", "SELECT * FROM T WHERE ID != 2",
              "SELECT * FROM T WHERE ID <> 2", "SELECT * FROM T WHERE ID < 2",
              "SELECT * FROM T WHERE ID > 1", "SELECT * FROM T WHERE ID <= 1",
              "SELECT * FROM T WHERE ID >= 2", "SELECT * FROM T WHERE ID = 1 OR NAME = 'A'",
              "SELECT * FROM T WHERE ID = 1 AND NAME = 'A'",
              "SELECT * FROM T WHERE ID >= 1 OR NAME = 'A'",
              "SELECT * FROM T WHERE ID >= 1 AND NAME = 'A'"}}

\* row counts at which the plan itself is computed, around the steps of its cost
PlanRows == {0, 1, 99, 100, 199, 200, 250}

\* max(1, floor(n / 100))
CostOf(n) == IF n \div 100 >= 1 THEN n \div 100 ELSE 1

\* C24: a successful SELECT on a catalog table returns as rowCount the
\* number n of rows it kept and a plan with operation SELECT STATEMENT, the
\* table's upper-cased name as object, cardinality n, bytes 100 * n and cost
\* max(1, floor(n / 100)); the plan depends on n alone.
C24_PlanFollowsRowCount ==
  \A c \in SelectCases :
    (Submitted(call, c.sql) /\ result.success)
      => /\ result.rowCount = Len(result.data)
         /\ c.sql = "SELECT * FROM T" => result.rowCount = Len(tables[c.table].data)
         /\ result.executionPlan.operation = "SELECT STATEMENT"
         /\ result.executionPlan.object = c.table
         /\ c.table \in DOMAIN tables
         /\ result.executionPlan.cardinality = result.rowCount
         /\ result.executionPlan.bytes = 100 * result.rowCount
         /\ result.executionPlan.cost = CostOf(result.rowCount)
         /\ result.executionPlan = generateExecutionPlan("SELECT", c.table, result.rowCount)
         /\ \A n \in PlanRows : generateExecutionPlan("SELECT", c.table, n).cost = CostOf(n)

\* SELECT NAME FROM T WHERE ID = 1 just kept one of the two rows of T
C24_Witness ==
  /\ Submitted(call, "SELECT NAME FROM T WHERE ID = 1")
  /\ result.success
  /\ result.rowCount = 1
  /\ result.executionPlan.cardinality = 1
  /\ Len(tables["T"].data) = 2

\* the INSERT statements of CatalogStatements, each with its table: one
\* value for the one or two columns of U, one or two values for the one
\* column of V
AppendCases ==
  {[sql |-> "INSERT INTO U VALUES (7)", table |-> "U"],
   [sql |-> "INSERT INTO V VALUES ('x')", table |-> "V"],
   [sql |-> "INSERT INTO V VALUES ('x', 'y')", table |-> "V"]}

\* C25: a successful INSERT, with as many values as target columns, fewer or
\* more, appends exactly one row at the end of its table, keeps the rows that
\* were there in place, reports "1 row created." with rowCount 1, and leaves
\* the table's columns and indexes and every other table as they were.
C25_InsertAppendsOneRow ==
  [][\A c \in AppendCases :
       (Submitted(call', c.sql) /\ result'.success)
         => /\ c.table \in DOMAIN tables
            /\ result'.message = "1 row created."
            /\ result'.rowCount = 1
            /\ DOMAIN tables' = DOMAIN tables
            /\ Len(tables'[c.table].data) = Len(tables[c.table].data) + 1
            /\ SubSeq(tables'[c.table].data, 1, Len(tables[c.table].data)) = tables[c.table].data
            /\ tables' = [tables EXCEPT ![c.table].data = tables'[c.table].data]]_vars

\* two values were just inserted into the one column of V, which now has
\* two rows, while U keeps its row and its index
C25_Witness ==
  /\ Submitted(call, "INSERT INTO V VALUES ('x', 'y')")
  /\ result.success
  /\ Len(tables["V"].columns) = 1
  /\ Len(tables["V"].data) = 2
  /\ "U" \in DOMAIN tables
  /\ Len(tables["U"].data) = 1
  /\ Len(tables["U"].indexes) = 1

\* the CREATE TABLE statements of DdlStatements, each with the name it is
\* written with, in upper case
CreateCases ==
  {[sql |-> "CREATE TABLE T (ID NUMBER, NAME VARCHAR2(50))", name |-> "T"],
   [sql |-> "create table t (id INTEGER NOT NULL, name CHAR);", name |-> "T"],
   [sql |-> "CREATE TABLE T (C NUMBER(5) not null, P NUMBER(8,2))", name |-> "T"],
   [sql |-> "CREATE TABLE DATES (D DATE)", name |-> "DATES"],
   [sql |-> "CREATE TABLE U (N INT)", name |-> "U"]}

\* C26: a successful CREATE TABLE adds to the catalog one table, under the
\* name written in the statement, in upper case, whatever the identifier;
\* the new table has no rows, no indexes and no constraints.
C26_CreateRegistersNameAsWritten ==
  [][\A c \in CreateCases :
       (Submitted(call', c.sql) /\ result'.success)
         => /\ DOMAIN tables' = DOMAIN tables \cup {c.name}
            /\ c.name \notin DOMAIN tables
            /\ tables'[c.name].name = c.name
            /\ tables'[c.name].data = <<>>
            /\ tables'[c.name].indexes = <<>>
            /\ tables'[c.name].constraints = <<>>]_vars

\* a text ends with a semicolon or a slash
Terminated(text) == endsWith(text, ";") \/ endsWith(text, "/")

\* each line with its trimmed text, whether that is empty or a session or
\* utility command, and whether it ends with a terminator
lineOf ==
  [line \in TerminalLines |->
     LET upper == toUpperCase(trim(line))
     IN [text |-> trim(line),
         command |->
           \/ \E p \in {"COMMIT", "ROLLBACK", "SAVEPOINT", "SET", "SHOW"} : startsWith(upper, p)
           \/ upper \in {"CLEAR", "CLS", "HELP", "EXIT", "QUIT"},
         terminated |-> Terminated(trim(line))]]

\* what a step of executeCommand(line) shows in any case: a call with a text
\* that ends with the line, or the line at the end of the buffer, or no change
Shows(line) ==
  \/ call'.op = "parseSQL" /\ endsWith(call'.sql, lineOf[line].text)
  \/ call'.op = "executeSessionCommand" /\ endsWith(call'.command, lineOf[line].text)
  \/ isMultiLine' /\ endsWith(multiLineInput', line)
  \/ UNCHANGED vars

\* C27: the terminal calls parseSQL only with the accumulated input, trimmed,
\* when that ends with a semicolon or a slash; a non-empty line that is no
\* session or utility command and has no terminator only turns multi-line
\* mode on and is appended to the buffer, nothing being executed; after every
\* call of parseSQL multi-line mode is off and the buffer is empty.
C27_EngineRunsOnTerminatedInput ==
  [][\A command \in TerminalLines :
       (Shows(command) /\ ExecuteCommand({command}, Times, Elapsed))
         => LET fullCommand == IF isMultiLine THEN multiLineInput \o "\n" \o command ELSE command
                text == trim(fullCommand)
            IN /\ call'.op = "parseSQL" => Terminated(call'.sql)
               /\ ~Terminated(text)
                    => /\ tables' = tables /\ sequences' = sequences /\ result' = result
                       /\ call'.op = "parseSQL" => call' = call
               /\ (/\ lineOf[command].text # ""
                   /\ ~lineOf[command].command
                   /\ ~lineOf[command].terminated)
                    => /\ isMultiLine'
                       /\ multiLineInput' = fullCommand
                       /\ UNCHANGED <<tables, sequences, call, result, sessionState, localStorage>>
               /\ (call'.op = "parseSQL" /\ call'.sql = text)
                    => ~isMultiLine' /\ multiLineInput' = ""]_vars

\* the statement typed in two lines was just executed: it returned the row of
\* T, and the terminal is back in single-line mode with an empty buffer
C27_Witness ==
  /\ Submitted(call, "SELECT * FROM T\nWHERE ID=1;")
  /\ result.success
  /\ Len(result.data) = 1
  /\ ~isMultiLine
  /\ multiLineInput = ""

\* the statements of ErrorStatements that reach executeSelect, executeDescribe
\* or executeDualQuery: each kind found, not found, and not matched
QueryCases ==
  {"SELECT * FROM T", "SELECT * FROM DATES", "SELECT",
   "DESC T", "DESCRIBE DATES", "DESCRIBE",
   "(SELECT 7 FROM DUAL)", "(SELECT 010+1 FROM DUAL)", "WITH DUAL"}

\* C28: a SELECT, a DESCRIBE and a query on DUAL leave the catalog as it was,
\* whether they return rows, fail with an error result or throw: the tables,
\* their columns, rows in order and indexes are the same after the statement.
C28_QueriesLeaveCatalog ==
  [][(call'.op = "parseSQL" /\ call'.sql \in QueryCases)
       => /\ tables' = tables
          /\ sequences' = sequences]_vars

\* DESC T just listed the column of T, which holds a row and an index
C28_Witness ==
  /\ Submitted(call, "DESC T")
  /\ result.success
  /\ result.rowCount = 1
  /\ "T" \in DOMAIN tables
  /\ Len(tables["T"].data) = 1
  /\ Len(tables["T"].indexes) = 1

\* statements of Statements whose WHERE clause has no piece of the shape
\* column, operator, value, each with the statement that has no clause
ShapelessCases ==
  {[sql |-> "SELECT * FROM T WHERE NAME LIKE 'A%'", where |-> "NAME LIKE 'A%'",
    plain |-> "SELECT * FROM T"],
   [sql |-> "SELECT * FROM T WHERE ID IS NULL OR NAME IS NULL",
    where |-> "ID IS NULL OR NAME IS NULL", plain |-> "SELECT * FROM T"],
   [sql |-> "DELETE FROM T WHERE NAME LIKE 'A%'", where |-> "NAME LIKE 'A%'",
    plain |-> "DELETE FROM T"],
   [sql |-> "DELETE FROM T WHERE ID BETWEEN 1 AND 2", where |-> "ID BETWEEN 1 AND 2",
    plain |-> "DELETE FROM T"]}

\* no piece between the connectives of the clause has the shape
Shapeless(whereClause) ==
  /\ whereClause \in WhereClauses
  /\ \A i \in 1..Len(conditionsOf[whereClause]) :
        i % 2 = 1 => ~conditionsOf[whereClause][i].ok

\* C29: a WHERE clause none of whose pieces between AND and OR has the shape
\* column, operator, value is true of every row: the SELECT returns every row
\* and the DELETE removes every row, and both leave the result and the
\* catalog that the same statement without the clause would leave.
C29_ShapelessClauseKeepsEveryRow ==
  [][\A c \in ShapelessCases :
       (call'.op = "parseSQL" /\ call'.sql = c.sql /\ Shapeless(c.where))
         => /\ \E elapsed \in Elapsed :
                  /\ result' = parseSQLOutcome(c.plain, tables, call'.now, elapsed).result
                  /\ tables' = parseSQLOutcome(c.plain, tables, call'.now, elapsed).tables
            /\ ("T" \in DOMAIN tables /\ c.plain = "SELECT * FROM T")
                 => result'.data = tables["T"].data /\ tables' = tables
            /\ ("T" \in DOMAIN tables /\ c.plain = "DELETE FROM T")
                 => /\ tables'["T"].data = <<>>
                    /\ result'.rowCount = Len(tables["T"].data)]_vars

\* DELETE FROM T WHERE ID BETWEEN 1 AND 2 just removed the two rows of T
C29_Witness ==
  /\ Submitted(call, "DELETE FROM T WHERE ID BETWEEN 1 AND 2")
  /\ Shapeless("ID BETWEEN 1 AND 2")
  /\ result.success
  /\ result.rowCount = 2
  /\ tables["T"].data = <<>>

\* the commands of SessionCommands by what they ask for; name is the text
\* that follows SAVEPOINT and a space in the command as it is written
SessionCases ==
  {[command |-> "COMMIT", kind |-> "end"], [command |-> " commit ", kind |-> "end"],
   [command |-> "ROLLBACK", kind |-> "end"], [command |-> "rollback", kind |-> "end"],
   [command |-> "SAVEPOINT A", kind |-> "savepoint", name |-> "A"],
   [command |-> "savepoint a", kind |-> "savepoint", name |-> "a"],
   [command |-> "SAVEPOINT B", kind |-> "savepoint", name |-> "B"],
   [command |-> "SHOW USER", kind |-> "show"], [command |-> "show autocommit", kind |-> "show"],
   [command |-> "SHOW ALL", kind |-> "show"],
   [command |-> "SAVEPOINT", kind |-> "unknown"], [command |-> "COMMIT;", kind |-> "unknown"],
   [command |-> "ROLLBACK WORK", kind |-> "unknown"], [command |-> "HELP", kind |-> "unknown"]}

\* what a call with a command of SessionCases does to the session, given the
\* text a SAVEPOINT appends for the name it is written with
SessionBookkeeping(appended(_)) ==
  /\ sessionState'.savepoints # <<>> => sessionState'.transactionActive
  /\ \A c \in SessionCases :
       (call'.op = "executeSessionCommand" /\ call'.command = c.command)
         => /\ c.kind = "end"
                 => ~sessionState'.transactionActive /\ sessionState'.savepoints = <<>>
            /\ c.kind = "savepoint"
                 => /\ sessionState'.savepoints = Append(sessionState.savepoints, appended(c.name))
                    /\ sessionState'.transactionActive
            /\ c.kind \in {"show", "unknown"}
                 => sessionState' = sessionState /\ localStorage' = localStorage

\* C30 as stated: from the default session, whatever calls of
\* executeSessionCommand and startTransaction are made, a session with a
\* savepoint has its transaction active; COMMIT and ROLLBACK leave no
\* transaction and no savepoint, SAVEPOINT followed by a name appends that
\* name and makes the transaction active, SHOW and unknown commands change
\* nothing.
C30_SavepointAppendsName ==
  /\ sessionState.savepoints # <<>> => sessionState.transactionActive
  /\ [][SessionBookkeeping(LAMBDA name : name)]_vars

\* C30, amended: the same, where SAVEPOINT followed by a name appends the
\* name in upper case.
C30_SavepointAppendsUpperName ==
  /\ sessionState.savepoints # <<>> => sessionState.transactionActive
  /\ [][SessionBookkeeping(toUpperCase)]_vars

\* savepoint a was just appended, as A, to a session that held savepoint B
C30_Witness ==
  /\ call.op = "executeSessionCommand"
  /\ call.command = "savepoint a"
  /\ sessionState.savepoints = <<"B", "A">>
  /\ sessionState.transactionActive

====
